---- MODULE Spec2Model ----
(***************************************************************************)
(* Model of the code-analyzer core of DyorScan.FUN: the streaming scan and *)
(* chat handlers and the fetch handler (src/api/code-analyzer/fetch.js),   *)
(* the batched content fetchers (fetchFiles, fetchFileContents,            *)
(* fetchFilesBatch), the library's streaming answer generator              *)
(* (generateAnswerStream), the file selectors (analyzeFileSelection,       *)
(* selectRelevantFiles), the context assemblers (buildContextWithLimit,    *)
(* buildContext), the pattern scanners (runPatternScan, scanFile,          *)
(* scanFiles), the tree functions (buildFileTree, pruneFileTree,           *)
(* treeToString) and the stream consumers of the user interface            *)
(* (handleSubmit, handleSecurityScan, handleScan).                         *)
(*                                                                         *)
(* Spec runs the handlers, fetchFilesBatch, the generator and the          *)
(* repository and profile fetchers; SelectorSpec, AssemblerSpec,           *)
(* ScannerSpec, TreeSpec and ConsumerSpec run the selectors, the           *)
(* assemblers, the scanners, the tree functions and the stream consumers   *)
(* on their own.                                                           *)
(*                                                                         *)
(* One request runs per behaviour; the scanner's calls follow one another, *)
(* since the regular expressions of the rule tables outlive a call.  An    *)
(* action is one run of the JavaScript code between two suspension points  *)
(* (awaits): everything the code does synchronously before it next awaits  *)
(* is one step.                                                            *)
(***************************************************************************)
EXTENDS Integers, Sequences, FiniteSets, TLC

VARIABLES
    kind,       \* which code runs: "idle", "scan", "chat", "fetch", "batch", "gen",
                \*   "select", "context", or the name of the function or of the
                \*   stream consumer that runs on its own
    pc,         \* the suspension point the code is at
    response,   \* the plain (non-stream) HTTP response: None or Some(record)
    opened,     \* the event-stream headers have been set
    chan,       \* what was done on the response channel: writes and ends
    connected,  \* the consumer is still connected to the transport
    codeFiles,  \* scan handler: the filtered code-file list
    fVariant,   \* fetch loop: "files" (scan), "contents" (chat), "batch" (library)
    fPaths,     \* fetch loop: the input path list
    fWidth,     \* fetch loop: the chunk width
    fI,         \* fetch loop: the loop index i (0-based, as in the code)
    fChunk,     \* fetch loop: the Promise.all slots of the current chunk
    fResults,   \* fetch loop: the results array
    fIssued,    \* fetch loop: the paths whose remote fetch was issued, in issue order
    fOutcome,   \* fetch loop: what the remote answered, per input index
    consumed,   \* streaming: the increments received from the model so far (a
                \*   stream consumer: the lines it has read)
    streamErr,  \* streaming: None, or Some(message) once the model stream failed
    yielded,    \* generateAnswerStream: the values yielded so far
    args,       \* a call of a library function: its arguments (None before the call)
    asked,      \* the calls a selector, a scan or a fetch made to the language model or
                \*   to the host, each None while it is awaited and Some(answer) once
                \*   it has settled
    result,     \* a call of a library function: None, or Some of what it returned or raised
                \*   (a stream consumer: Some of what the user interface shows)
    lastIndex,  \* the lastIndex of every rule's regular expression, per rule table
    scans,      \* the pattern scans made so far: what was scanned and what was found
    exists      \* the repository (or user) that the request names exists at the host

vars == <<kind, pc, response, opened, chan, connected, codeFiles,
          fVariant, fPaths, fWidth, fI, fChunk, fResults, fIssued, fOutcome,
          consumed, streamErr, yielded, args, asked, result, lastIndex, scans, exists>>

handlerVars == <<response, opened, chan, connected, codeFiles>>
fetchVars   == <<fVariant, fPaths, fWidth, fI, fChunk, fResults, fIssued, fOutcome>>
streamVars  == <<consumed, streamErr, yielded>>
callVars    == <<args, asked, result>>
regexVars   == <<lastIndex, scans>>

----------------------------------------------------------------------------
(* Bounds of the model *)

\* longest path list handed to a request or to fetchFilesBatch
MaxPaths == 7
\* largest explicit maxConcurrent argument tried besides the default
MaxWidth == 2
\* most increments the model stream delivers before it ends or fails
MaxChunks == 2

----------------------------------------------------------------------------
(* JavaScript values *)

\* null / undefined / an absent field
None == <<>>
Some(x) == <<x>>

\* JavaScript truthiness of an optional string: null, undefined and "" are falsy
Truthy(o) == o # None /\ o[1] # ""

Min(a, b) == IF a < b THEN a ELSE b

\* Array.prototype.slice(from, to) with 0-based, end-exclusive indices
Slice(s, from, to) == SubSeq(s, from + 1, Min(to, Len(s)))

----------------------------------------------------------------------------
(* The remote source-hosting collaborator, as the fetchers see it *)

\* the paths requests name; a list of inputs is a window of this cycle
PathPool == <<"index.js", "README.md", "empty.py", "pkg.go", "gone.rb">>

AllPaths == {PathPool[k] : k \in 1..Len(PathPool)} \cup {"package.json"}

\* the list of n paths that starts at position o of the cycle
Window(o, n) == [k \in 1..n |-> PathPool[((o + k - 2) % Len(PathPool)) + 1]]

PathLists == {Window(o, n) : o \in 1..Len(PathPool), n \in 0..MaxPaths}

\* what octokit.rest.repos.getContent resolves or rejects with
DataFile(c) == [ok |-> TRUE,  type |-> "file", content |-> c,  status |-> 200, message |-> ""]
DataDir     == [ok |-> TRUE,  type |-> "dir",  content |-> "", status |-> 200, message |-> ""]
NotFound    == [ok |-> FALSE, type |-> "",     content |-> "", status |-> 404, message |-> "Not Found"]
TransportError ==
               [ok |-> FALSE, type |-> "",     content |-> "", status |-> 0,   message |-> "socket hang up"]

\* the repository: two files with text, an empty file, a directory, absent paths
RemoteAnswer(path) ==
    CASE path = "index.js"  -> DataFile("eval(x)\ncreateHash('md5')")
      [] path = "README.md" -> DataFile("# readme")
      [] path = "empty.py"  -> DataFile("")
      [] path = "pkg.go"    -> DataDir
      [] OTHER              -> NotFound

\* a fetch is answered by the repository, or fails in transport; there is nothing at
\* any path of a repository that does not exist
Outcomes(path) == {IF exists THEN RemoteAnswer(path) ELSE NotFound, TransportError}

----------------------------------------------------------------------------
(* One file fetch: the record each fetcher makes of the remote's answer *)

\* every resolved answer taken for a file: a mutant of fetchFileContent
fetchFileContentNoTypeCheck(path, o) ==
    IF o.ok
    THEN [path |-> path, content |-> Some(o.content), size |-> Len(o.content)]
    ELSE [path |-> path, content |-> None, error |-> o.message]

\* fetchFileContent (library): a non-file throws inside the try and is caught
fetchFileContent(path, o) ==
    IF o.ok /\ o.type = "file"
    THEN [path |-> path, content |-> Some(o.content), size |-> Len(o.content)]
    ELSE IF o.ok
    THEN [path |-> path, content |-> None,
          error |-> "Path \"" \o path \o "\" is not a file"]
    ELSE IF o.status = 404
    THEN [path |-> path, content |-> None, error |-> "File not found"]
    ELSE [path |-> path, content |-> None, error |-> o.message]

\* the per-path callback of fetchFileContents (chat handler)
fetchFileContentsOne(path, o) ==
    IF ~o.ok
    THEN [path |-> path, content |-> None, error |-> o.message]
    ELSE IF o.type # "file"
    THEN [path |-> path, content |-> None, error |-> "Not a file"]
    ELSE [path |-> path, content |-> Some(o.content), size |-> Len(o.content)]

\* the per-path callback of fetchFiles (scan handler)
fetchFilesOne(path, o) ==
    IF o.ok /\ o.type = "file"
    THEN [path |-> path, content |-> Some(o.content)]
    ELSE [path |-> path, content |-> None]

FileRecord(variant, path, o) ==
    CASE variant = "batch"    -> fetchFileContent(path, o)
      [] variant = "contents" -> fetchFileContentsOne(path, o)
      [] variant = "files"    -> fetchFilesOne(path, o)

----------------------------------------------------------------------------
(* The chunked fetch loop shared by fetchFilesBatch, fetchFileContents and  *)
(* fetchFiles: for (i = 0; i < paths.length; i += width) { await            *)
(* Promise.all(paths.slice(i, i + width).map(fetch)); push }                *)

\* the width the two handlers hard-code
BATCH_SIZE == 5
\* fetchFilesBatch's default maxConcurrent
DEFAULT_MAX_CONCURRENT == 5

\* a slice one element too long: a mutant of ChunkOf
ChunkOfTooLong(paths, i, width) == Slice(paths, i, i + width + 1)

\* paths.slice(i, i + width)
ChunkOf(paths, i, width) == Slice(paths, i, i + width)

\* a Promise.all slot: None while the fetch is in flight, Some(record) once settled
InFlight(chunk) == {k \in 1..Len(chunk) : chunk[k] = None}

\* results kept in completion order: a mutant of SettleSlot
SettleInCompletionOrder(chunk, k, rec) ==
    [chunk EXCEPT ![CHOOSE j \in InFlight(chunk) : \A h \in InFlight(chunk) : j <= h] = Some(rec)]

\* Promise.all keeps each result at the position of its promise
SettleSlot(chunk, k, rec) == [chunk EXCEPT ![k] = Some(rec)]

ChunkResults(chunk) == [k \in 1..Len(chunk) |-> chunk[k][1]]

\* results.push(...chunkResults); fetchFiles pushes only records with truthy content
PushResults(variant, results, chunkResults) ==
    IF variant = "files"
    THEN results \o SelectSeq(chunkResults, LAMBDA f : Truthy(f.content))
    ELSE results \o chunkResults

\* entering a loop iteration issues every fetch of the chunk at once
IssueChunk(paths, width, i) ==
    /\ fI' = i
    /\ fChunk' = [k \in 1..Len(ChunkOf(paths, i, width)) |-> None]
    /\ fIssued' = fIssued \o ChunkOf(paths, i, width)

\* the call of a fetcher: its locals, and the first evaluation of the loop (i = 0)
EnterLoop(variant, paths, width) ==
    /\ fVariant' = variant
    /\ fPaths' = paths
    /\ fWidth' = width
    /\ fResults' = <<>>
    /\ fOutcome' = [k \in 1..Len(paths) |-> None]
    /\ IF 0 < Len(paths)
       THEN IssueChunk(paths, width, 0)
       ELSE fI' = 0 /\ fChunk' = <<>> /\ fIssued' = fIssued

\* one in-flight fetch of the current chunk settles, in any order
FetchSettle(k, o) ==
    /\ pc = "fetch"
    /\ k \in InFlight(fChunk)
    /\ o \in Outcomes(fPaths[fI + k])
    /\ fChunk' = SettleSlot(fChunk, k, FileRecord(fVariant, fPaths[fI + k], o))
    /\ fOutcome' = [fOutcome EXCEPT ![fI + k] = Some(o)]
    /\ UNCHANGED <<kind, pc, fVariant, fPaths, fWidth, fI, fResults, fIssued>>
    /\ UNCHANGED <<handlerVars, streamVars>>
    /\ UNCHANGED callVars
    /\ UNCHANGED regexVars
    /\ UNCHANGED exists

\* Promise.all has resolved: every fetch of the chunk has settled
ChunkSettled == pc = "fetch" /\ InFlight(fChunk) = {}

\* the results array once the settled chunk is pushed
Pushed == PushResults(fVariant, fResults, ChunkResults(fChunk))

\* the loop test after i += width
MoreChunks == fI + fWidth < Len(fPaths)

----------------------------------------------------------------------------
(* The response channel *)

\* sendEvent(type, data): res.write of one server-sent event
sendEvent(type, data) == [type |-> type, data |-> data]

\* res.end()
resEnd == [type |-> "end", data |-> None]

Status(message, progress) ==
    sendEvent("status", [message |-> message, progress |-> progress])

\* error.message || fallback
ErrorEvent(message, fallback) ==
    sendEvent("error", [message |-> IF message = "" THEN fallback ELSE message])

\* the messages of the errors the collaborators and the runtime raise
ErrorMessages == {"", "Connection error."}

TerminalTypes == {"complete", "done", "error"}

\* the events written so far, in order, without the channel's ends
Events(c) == SelectSeq(c, LAMBDA e : e.type # "end")

Terminals(c) == SelectSeq(c, LAMBDA e : e.type \in TerminalTypes)

Ends(c) == SelectSeq(c, LAMBDA e : e.type = "end")

Closed == Len(Ends(chan)) > 0

\* req.method !== "POST"
RejectMethod(k) ==
    /\ kind = "idle"
    /\ k \in {"scan", "chat"}
    /\ kind' = k
    /\ pc' = "responded"
    /\ response' = Some([status |-> 405, error |-> "Method not allowed"])
    /\ UNCHANGED <<opened, chan, connected, codeFiles, fetchVars, streamVars>>
    /\ UNCHANGED callVars
    /\ UNCHANGED regexVars
    /\ UNCHANGED exists

\* a required body field is missing
RejectFields(k) ==
    /\ kind = "idle"
    /\ k \in {"scan", "chat"}
    /\ kind' = k
    /\ pc' = "responded"
    /\ response' = Some([status |-> 400,
                         error |-> IF k = "scan" THEN "Missing owner or repo"
                                                 ELSE "Missing required fields"])
    /\ UNCHANGED <<opened, chan, connected, codeFiles, fetchVars, streamVars>>
    /\ UNCHANGED callVars
    /\ UNCHANGED regexVars
    /\ UNCHANGED exists

\* the transport reports that the consumer went away; no handler listens for it
Disconnect ==
    /\ opened
    /\ ~Closed
    /\ connected
    /\ connected' = FALSE
    /\ UNCHANGED <<kind, pc, response, opened, chan, codeFiles, fetchVars, streamVars>>
    /\ UNCHANGED callVars
    /\ UNCHANGED regexVars
    /\ UNCHANGED exists

----------------------------------------------------------------------------
(* The scan handler *)

CODE_EXTENSIONS == {".js", ".jsx", ".ts", ".tsx", ".py", ".rb", ".php", ".go"}

\* path.substring(path.lastIndexOf(".")).toLowerCase(); without a dot, the whole path
ExtOf(path) ==
    CASE path = "index.js"     -> ".js"
      [] path = "README.md"    -> ".md"
      [] path = "empty.py"     -> ".py"
      [] path = "pkg.go"       -> ".go"
      [] path = "gone.rb"      -> ".rb"
      [] path = "package.json" -> ".json"

IsCodeFile(path) == ExtOf(path) \in CODE_EXTENSIONS

\* the filePaths field of the request body
ScanBodies ==
    {[kind |-> "array", items |-> l] : l \in PathLists}
        \cup {[kind |-> "undefined", items |-> <<>>], [kind |-> "string", items |-> <<>>]}

\* (filePaths || []).filter(...) throws when filePaths is truthy and no array
FilterThrows(filePaths) == filePaths.kind = "string"

\* .filter(code extension).slice(0, 20)
CodeFilesOf(filePaths) == Slice(SelectSeq(filePaths.items, IsCodeFile), 0, 20)

\* the share of the paths as a percentage of its own: a mutant of FetchProgress
FetchProgressOfAll(i, n) == 10 + ((100 * i) \div n)

\* Math.round(10 + (i / n) * 30)
FetchProgress(i, n) == 10 + ((60 * i + n) \div (2 * n))

\* the status event at the head of each iteration of fetchFiles
FetchFilesStatus(paths, i) ==
    Status(<<"Fetching files", i + Len(ChunkOf(paths, i, BATCH_SIZE)), Len(paths)>>,
           FetchProgress(i, Len(paths)))

\* the finally block: res.end()
Finally == <<resEnd>>

\* the catch block without the channel's close: a mutant of CatchFinally
CatchWithoutFinally(message, fallback) == <<ErrorEvent(message, fallback)>>

\* the finally block without the catch's error event: a mutant of CatchFinally
FinallyWithoutCatch(message, fallback) == Finally

\* the catch block followed by the finally block
CatchFinally(message, fallback) == <<ErrorEvent(message, fallback)>> \o Finally

\* the filter throws on a malformed filePaths
ScanFilterThrows(filePaths) ==
    /\ kind = "idle"
    /\ FilterThrows(filePaths)
    /\ kind' = "scan"
    /\ opened' = TRUE
    /\ chan' = CatchFinally("(filePaths || []).filter is not a function", "Scan failed")
    /\ pc' = "closed"
    /\ UNCHANGED <<response, connected, codeFiles, fetchVars, streamVars>>
    /\ UNCHANGED callVars
    /\ UNCHANGED regexVars
    /\ UNCHANGED exists

\* codeFiles.length === 0: error event, return res.end(), then the finally block
NoCodeFiles == <<sendEvent("error", [message |-> "No code files found to scan"]), resEnd>>
                   \o Finally

ScanNoCodeFiles(filePaths) ==
    /\ kind = "idle"
    /\ ~FilterThrows(filePaths)
    /\ CodeFilesOf(filePaths) = <<>>
    /\ kind' = "scan"
    /\ opened' = TRUE
    /\ codeFiles' = <<>>
    /\ chan' = NoCodeFiles
    /\ pc' = "closed"
    /\ UNCHANGED <<response, connected, fetchVars, streamVars>>
    /\ UNCHANGED callVars
    /\ UNCHANGED regexVars
    /\ UNCHANGED exists

\* up to the first await: the first status, then fetchFiles issues its first chunk
ScanStart(filePaths) ==
    /\ kind = "idle"
    /\ ~FilterThrows(filePaths)
    /\ CodeFilesOf(filePaths) # <<>>
    /\ kind' = "scan"
    /\ opened' = TRUE
    /\ codeFiles' = CodeFilesOf(filePaths)
    /\ chan' = <<Status(<<"Scanning files", Len(codeFiles')>>, 10),
                 FetchFilesStatus(codeFiles', 0)>>
    /\ EnterLoop("files", codeFiles', BATCH_SIZE)
    /\ pc' = "fetch"
    /\ UNCHANGED <<response, connected, streamVars>>
    /\ UNCHANGED callVars
    /\ UNCHANGED regexVars
    /\ UNCHANGED exists

\* a chunk is done and the loop goes round: push, i += width, issue the next chunk
FetchNextChunk ==
    /\ ChunkSettled
    /\ MoreChunks
    /\ fResults' = Pushed
    /\ IssueChunk(fPaths, fWidth, fI + fWidth)
    /\ chan' = IF fVariant = "files"
               THEN Append(chan, FetchFilesStatus(fPaths, fI + fWidth))
               ELSE chan
    /\ UNCHANGED <<kind, pc, response, opened, connected, codeFiles,
                   fVariant, fPaths, fWidth, fOutcome, streamVars>>
    /\ UNCHANGED callVars
    /\ UNCHANGED regexVars
    /\ UNCHANGED exists

----------------------------------------------------------------------------
(* Text: a JavaScript string taken apart is the sequence of its characters *)

\* the line terminators and the box-drawing characters of a tree rendering,
\* U+251C, U+2514, U+2500 and U+2502
LF    == "\n"
CR    == "\r"
TEE   == "U+251C"
ELBOW == "U+2514"
DASH  == "U+2500"
PIPE  == "U+2502"

UpperCase == <<"A", "B", "C", "D", "E", "F", "G", "H", "I", "J", "K", "L", "M",
               "N", "O", "P", "Q", "R", "S", "T", "U", "V", "W", "X", "Y", "Z">>
LowerCase == <<"a", "b", "c", "d", "e", "f", "g", "h", "i", "j", "k", "l", "m",
               "n", "o", "p", "q", "r", "s", "t", "u", "v", "w", "x", "y", "z">>

\* String.prototype.toLowerCase
toLowerCase(text) ==
    [k \in 1..Len(text) |->
        IF \E u \in 1..26 : UpperCase[u] = text[k]
        THEN LowerCase[CHOOSE u \in 1..26 : UpperCase[u] = text[k]]
        ELSE text[k]]

\* String.prototype.includes
includes(text, part) ==
    \E i \in 0..(Len(text) - Len(part)) : SubSeq(text, i + 1, i + Len(part)) = part

\* String.prototype.split("\n")
RECURSIVE split(_)
split(text) ==
    IF \A k \in 1..Len(text) : text[k] # LF
    THEN <<text>>
    ELSE LET i == CHOOSE i \in 1..Len(text) :
                      text[i] = LF /\ \A j \in 1..(i - 1) : text[j] # LF
         IN <<SubSeq(text, 1, i - 1)>> \o split(SubSeq(text, i + 1, Len(text)))

\* the characters of a text put together again, as one string value
RECURSIVE StringOf(_)
StringOf(text) == IF text = <<>> THEN "" ELSE text[1] \o StringOf(Tail(text))

\* the pattern [TEE or ELBOW] DASH DASH SPACE (.+)$ matches at position i: a connector,
\* then one or more characters, none a line terminator, up to the end of the line
MatchesAt(line, i) ==
    /\ i + 4 <= Len(line)
    /\ line[i] \in {TEE, ELBOW}
    /\ line[i + 1] = DASH
    /\ line[i + 2] = DASH
    /\ line[i + 3] = " "
    /\ \A k \in (i + 4)..Len(line) : line[k] \notin {LF, CR}

\* the match that starts last in the line: a mutant of matchName
matchNameLast(line) ==
    IF \E i \in 1..Len(line) : MatchesAt(line, i)
    THEN LET i == CHOOSE i \in 1..Len(line) :
                      MatchesAt(line, i) /\ \A j \in (i + 1)..Len(line) : ~MatchesAt(line, j)
         IN Some(SubSeq(line, i + 4, Len(line)))
    ELSE None

\* line.match(pattern): None, or Some(match[1]) of the leftmost match
matchName(line) ==
    IF \E i \in 1..Len(line) : MatchesAt(line, i)
    THEN LET i == CHOOSE i \in 1..Len(line) :
                      MatchesAt(line, i) /\ \A j \in 1..(i - 1) : ~MatchesAt(line, j)
         IN Some(SubSeq(line, i + 4, Len(line)))
    ELSE None

----------------------------------------------------------------------------
(* Trees and their text rendering *)

FileNode(name)          == [name |-> name, type |-> "file", children |-> <<>>]
DirNode(name, children) == [name |-> name, type |-> "dir",  children |-> children]

\* treeToString(tree, prefix)
RECURSIVE treeToString(_, _)
treeToString(tree, prefix) ==
    IF tree = <<>>
    THEN <<>>
    ELSE LET node        == tree[1]
             isLast      == Len(tree) = 1
             connector   == IF isLast THEN <<ELBOW, DASH, DASH, " ">>
                                      ELSE <<TEE, DASH, DASH, " ">>
             childPrefix == IF isLast THEN <<" ", " ", " ", " ">>
                                      ELSE <<PIPE, " ", " ", " ">>
             line        == prefix \o connector \o node.name \o <<LF>>
             below       == IF "children" \in DOMAIN node /\ Len(node.children) > 0
                            THEN treeToString(node.children, prefix \o childPrefix)
                            ELSE <<>>
         IN line \o below \o treeToString(Tail(tree), prefix)

\* getFilePaths(tree, basePath): the full paths of the file nodes
RECURSIVE getFilePaths(_, _)
getFilePaths(tree, basePath) ==
    IF tree = <<>>
    THEN <<>>
    ELSE LET node     == tree[1]
             fullPath == IF basePath # <<>> THEN basePath \o <<"/">> \o node.name
                                           ELSE node.name
             here     == IF node.type = "file" THEN <<fullPath>>
                         ELSE IF "children" \in DOMAIN node
                         THEN getFilePaths(node.children, fullPath)
                         ELSE <<>>
         IN here \o getFilePaths(Tail(tree), basePath)

----------------------------------------------------------------------------
(* File selection: selectRelevantFiles (chat handler) and analyzeFileSelection *)

\* a JSON / JavaScript value: an array, a string, an absent or falsy value, or
\* another truthy value (a number, an object)
Arr(items) == [kind |-> "array", items |-> items, text |-> <<>>]
Str(text)  == [kind |-> "string", items |-> <<>>, text |-> text]
Undefined  == [kind |-> "undefined", items |-> <<>>, text |-> <<>>]
Other      == [kind |-> "other", items |-> <<>>, text |-> <<>>]

\* value.length
LengthOf(v) == IF v.kind = "string" THEN Len(v.text) ELSE Len(v.items)

\* value || []
OrEmpty(v) ==
    IF v.kind = "undefined" \/ (v.kind = "string" /\ v.text = <<>>) THEN Arr(<<>>) ELSE v

\* value.slice is a function: arrays and strings have one
HasSlice(v) == v.kind \in {"array", "string"}

\* the value as it is, not cut: a mutant of SliceOf
SliceOfWhole(v, n) == v

\* value.slice(0, n) of an array or a string
SliceOf(v, n) ==
    IF v.kind = "array" THEN Arr(Slice(v.items, 0, n)) ELSE Str(Slice(v.text, 0, n))

\* (value || []).slice(0, n)
OrEmptySlice(v, n) == SliceOf(OrEmpty(v), n)

\* the queries asked
Queries ==
    {<<"e", "x", "p", "l", "a", "i", "n", " ", "i", "n", "d", "e", "x", ".", "j", "s">>,
     <<"W", "h", "a", "t", " ", "i", "s", " ", "i", "n", " ", "t", "h", "e", " ", "R", "E", "A", "D", "M", "E", ".", "m", "d", "?">>,
     <<"h", "o", "w", " ", "d", "o", "e", "s", " ", "a", "u", "t", "h", " ", "w", "o", "r", "k">>}

\* the names of the nodes
N_PKG    == <<"p", "k", "g", ".", "g", "o">>
N_INDEX  == <<"i", "n", "d", "e", "x", ".", "j", "s">>
N_README == <<"R", "E", "A", "D", "M", "E", ".", "m", "d">>

\* the tree the renderings of the chat requests are made from
SmallTree ==
    <<DirNode(N_PKG, <<FileNode(N_INDEX)>>),
      FileNode(N_README),
      FileNode(N_INDEX)>>

\* the tree field of the request body: absent, the empty string, or a rendering
Trees == {None, Some(<<>>), Some(treeToString(SmallTree, <<>>))}

\* tree.split("\n") throws on an absent tree
TreeThrows(tree) == tree = None

\* findMentionedFiles (chat handler)
findMentionedFiles(query, tree) ==
    LET queryLower == toLowerCase(query)
        lines      == split(tree)
        hits       == SelectSeq(lines,
                          LAMBDA line :
                              /\ matchName(line) # None
                              /\ includes(queryLower, toLowerCase(matchName(line)[1])))
    IN [k \in 1..Len(hits) |-> StringOf(matchName(hits[k])[1])]

\* extractMentionedFiles (library)
extractMentionedFiles(query, fileTreeString) ==
    LET lines == split(fileTreeString)
        hits  == SelectSeq(lines,
                     LAMBDA line :
                         /\ matchName(line) # None
                         /\ includes(toLowerCase(query), toLowerCase(matchName(line)[1])))
    IN [k \in 1..Len(hits) |-> StringOf(matchName(hits[k])[1])]

\* no explicit tier, whatever the query mentions: a mutant of HasMentions
HasMentionsNever(mentionedFiles) == FALSE

\* mentionedFiles.length > 0
HasMentions(mentionedFiles) == Len(mentionedFiles) > 0

\* what the selection call to the language model comes back with: a rejection, a text
\* that is no JSON, or a JSON object with or without files and reason
SelectResponse(kind_, files, reason) == [kind |-> kind_, files |-> files, reason |-> reason]

SelectResponses ==
    {SelectResponse("error", Undefined, None),
     SelectResponse("text",  Undefined, None),
     SelectResponse("json",  Undefined, Some("the entry points")),
     SelectResponse("json",  Str(N_README), None)}
        \cup {SelectResponse("json", Arr(Window(1, n)), Some("the entry points")) :
                 n \in 0..MaxPaths}

\* the early return of selectRelevantFiles
SelectExplicit(mentioned) ==
    [files |-> Arr(Slice(mentioned, 0, 15)), reason |-> "Files mentioned in query"]

\* the try / catch of selectRelevantFiles around the model call
SelectFromModel(resp) ==
    IF resp.kind = "json" /\ HasSlice(OrEmpty(resp.files))
    THEN [files |-> OrEmptySlice(resp.files, 15),
          reason |-> IF Truthy(resp.reason) THEN resp.reason[1] ELSE "AI selected"]
    ELSE [files |-> Arr(<<"README.md", "package.json">>),
          reason |-> "Fallback to default files"]

FilesEvent(sel) ==
    sendEvent("files", [files |-> sel.files,
                        reason |-> sel.reason,
                        count |-> LengthOf(sel.files)])

\* what the chat writes between the selection and the fetch
AfterSelect(sel) ==
    <<FilesEvent(sel), Status(<<"Fetching files", LengthOf(sel.files)>>, 30)>>

\* the handler from the return of selectRelevantFiles to its next await:
\* fetchFileContents throws on a string (batch.map), returns at once on an empty
\* list, and otherwise issues its first chunk
ChatSelected(sel, written) ==
    IF sel.files.kind = "string"
    THEN /\ chan' = written \o AfterSelect(sel)
                        \o CatchFinally("batch.map is not a function",
                                        "Failed to generate response")
         /\ pc' = "closed"
         /\ UNCHANGED fetchVars
    ELSE /\ EnterLoop("contents", sel.files.items, BATCH_SIZE)
         /\ IF sel.files.items = <<>>
            THEN /\ chan' = written \o AfterSelect(sel)
                                \o <<Status(<<"Generating response...">>, 60)>>
                 /\ pc' = "create"
            ELSE /\ chan' = written \o AfterSelect(sel)
                 /\ pc' = "fetch"

FirstStatus == <<Status(<<"Analyzing query...">>, 10)>>

\* findMentionedFiles throws inside selectRelevantFiles, outside its own try
ChatTreeThrows(query, tree) ==
    /\ kind = "idle"
    /\ TreeThrows(tree)
    /\ kind' = "chat"
    /\ opened' = TRUE
    /\ chan' = FirstStatus
                   \o CatchFinally("Cannot read properties of undefined (reading 'split')",
                                   "Failed to generate response")
    /\ pc' = "closed"
    /\ UNCHANGED <<response, connected, codeFiles, fetchVars, streamVars>>
    /\ UNCHANGED callVars
    /\ UNCHANGED regexVars
    /\ UNCHANGED exists

\* names of the tree occur in the query: no model call
ChatExplicit(query, tree) ==
    /\ kind = "idle"
    /\ ~TreeThrows(tree)
    /\ HasMentions(findMentionedFiles(query, tree[1]))
    /\ kind' = "chat"
    /\ opened' = TRUE
    /\ ChatSelected(SelectExplicit(findMentionedFiles(query, tree[1])), FirstStatus)
    /\ UNCHANGED <<response, connected, codeFiles, streamVars>>
    /\ UNCHANGED callVars
    /\ UNCHANGED regexVars
    /\ UNCHANGED exists

\* no name occurs in the query: the selection call to the model is awaited
ChatAskModel(query, tree) ==
    /\ kind = "idle"
    /\ ~TreeThrows(tree)
    /\ ~HasMentions(findMentionedFiles(query, tree[1]))
    /\ kind' = "chat"
    /\ opened' = TRUE
    /\ chan' = FirstStatus
    /\ pc' = "select"
    /\ UNCHANGED <<response, connected, codeFiles, fetchVars, streamVars>>
    /\ UNCHANGED callVars
    /\ UNCHANGED regexVars
    /\ UNCHANGED exists

ChatSelectReturn(resp) ==
    /\ kind = "chat"
    /\ pc = "select"
    /\ ChatSelected(SelectFromModel(resp), chan)
    /\ UNCHANGED <<kind, response, opened, connected, codeFiles, streamVars>>
    /\ UNCHANGED callVars
    /\ UNCHANGED regexVars
    /\ UNCHANGED exists

\* a failed file fetch rethrown out of fetchFileContents: a mutant of ChatFetched
ChatFetchedRethrows ==
    /\ kind = "chat"
    /\ ChunkSettled
    /\ ~MoreChunks
    /\ fResults' = Pushed
    /\ IF \E k \in 1..Len(Pushed) : Pushed[k].content = None
       THEN /\ chan' = chan \o CatchFinally("Not Found", "Failed to generate response")
            /\ pc' = "closed"
       ELSE /\ chan' = Append(chan, Status(<<"Generating response...">>, 60))
            /\ pc' = "create"
    /\ UNCHANGED <<kind, response, opened, connected, codeFiles,
                   fVariant, fPaths, fWidth, fI, fChunk, fIssued, fOutcome, streamVars>>
    /\ UNCHANGED callVars
    /\ UNCHANGED regexVars
    /\ UNCHANGED exists

\* fetchFileContents returned: buildContext, status 60, the completion call is awaited
ChatFetched ==
    /\ kind = "chat"
    /\ ChunkSettled
    /\ ~MoreChunks
    /\ fResults' = Pushed
    /\ chan' = Append(chan, Status(<<"Generating response...">>, 60))
    /\ pc' = "create"
    /\ UNCHANGED <<kind, response, opened, connected, codeFiles,
                   fVariant, fPaths, fWidth, fI, fChunk, fIssued, fOutcome, streamVars>>
    /\ UNCHANGED callVars
    /\ UNCHANGED regexVars
    /\ UNCHANGED exists

----------------------------------------------------------------------------
(* The chat handler: streaming the answer *)

\* chunk.choices[0]?.delta?.content of one increment of the model stream
Increments == {None, Some(""), Some("a"), Some("b")}

\* a chunk event for every increment that has content, empty or not: a mutant of ChunkEvents
ChunkEventsForEmpty(content) ==
    IF content # None THEN <<sendEvent("chunk", [content |-> content[1]])>> ELSE <<>>

\* if (content) sendEvent("chunk", { content })
ChunkEvents(content) ==
    IF Truthy(content) THEN <<sendEvent("chunk", [content |-> content[1]])>> ELSE <<>>

\* done written before the last status: a mutant of ChatSuccessTail
ChatSuccessTailDoneFirst == <<sendEvent("done", <<>>), Status(<<"Complete">>, 100)>> \o Finally

\* the end of the try block, then the finally block
ChatSuccessTail == <<Status(<<"Complete">>, 100), sendEvent("done", <<>>)>> \o Finally

\* fileContents went into the context of the completion call and is used no more:
\* the fetcher's locals are dropped once that call is answered
ForgetFetch ==
    /\ fVariant' = "none"
    /\ fPaths' = <<>>
    /\ fWidth' = 0
    /\ fI' = 0
    /\ fChunk' = <<>>
    /\ fResults' = <<>>
    /\ fIssued' = <<>>
    /\ fOutcome' = <<>>

ChatCreateReturn ==
    /\ kind = "chat"
    /\ pc = "create"
    /\ chan' = Append(chan, Status(<<"Streaming response...">>, 80))
    /\ pc' = "stream"
    /\ ForgetFetch
    /\ UNCHANGED <<kind, response, opened, connected, codeFiles, streamVars>>
    /\ UNCHANGED callVars
    /\ UNCHANGED regexVars
    /\ UNCHANGED exists

\* openai.chat.completions.create rejects
ChatCreateFail(message) ==
    /\ kind = "chat"
    /\ pc = "create"
    /\ chan' = chan \o CatchFinally(message, "Failed to generate response")
    /\ pc' = "closed"
    /\ ForgetFetch
    /\ UNCHANGED <<kind, response, opened, connected, codeFiles, streamVars>>
    /\ UNCHANGED callVars
    /\ UNCHANGED regexVars
    /\ UNCHANGED exists

\* one turn of the for await loop
ChatStreamNext(content) ==
    /\ kind = "chat"
    /\ pc = "stream"
    /\ Len(consumed) < MaxChunks
    /\ consumed' = Append(consumed, content)
    /\ chan' = chan \o ChunkEvents(content)
    /\ UNCHANGED <<kind, pc, response, opened, connected, codeFiles, fetchVars,
                   streamErr, yielded>>
    /\ UNCHANGED callVars
    /\ UNCHANGED regexVars
    /\ UNCHANGED exists

\* the model stream is exhausted
ChatStreamEnd ==
    /\ kind = "chat"
    /\ pc = "stream"
    /\ chan' = chan \o ChatSuccessTail
    /\ pc' = "closed"
    /\ UNCHANGED <<kind, response, opened, connected, codeFiles, fetchVars, streamVars>>
    /\ UNCHANGED callVars
    /\ UNCHANGED regexVars
    /\ UNCHANGED exists

\* the model stream throws while it is iterated
ChatStreamFail(message) ==
    /\ kind = "chat"
    /\ pc = "stream"
    /\ streamErr' = Some(message)
    /\ chan' = chan \o CatchFinally(message, "Failed to generate response")
    /\ pc' = "closed"
    /\ UNCHANGED <<kind, response, opened, connected, codeFiles, fetchVars,
                   consumed, yielded>>
    /\ UNCHANGED callVars
    /\ UNCHANGED regexVars
    /\ UNCHANGED exists

----------------------------------------------------------------------------
(* generateAnswerStream (library): the async generator *)

\* yield content, for a truthy content
YieldOf(content) == IF Truthy(content) THEN <<content[1]>> ELSE <<>>

\* the catch block: the failure is yielded as one more piece of text
ErrorText(message) == "Error generating response: " \o message

GenStart ==
    /\ kind = "idle"
    /\ kind' = "gen"
    /\ pc' = "create"
    /\ UNCHANGED <<handlerVars, fetchVars, streamVars>>
    /\ UNCHANGED callVars
    /\ UNCHANGED regexVars
    /\ UNCHANGED exists

GenCreateReturn ==
    /\ kind = "gen"
    /\ pc = "create"
    /\ pc' = "stream"
    /\ UNCHANGED <<kind, handlerVars, fetchVars, streamVars>>
    /\ UNCHANGED callVars
    /\ UNCHANGED regexVars
    /\ UNCHANGED exists

GenNext(content) ==
    /\ kind = "gen"
    /\ pc = "stream"
    /\ Len(consumed) < MaxChunks
    /\ consumed' = Append(consumed, content)
    /\ yielded' = yielded \o YieldOf(content)
    /\ UNCHANGED <<kind, pc, handlerVars, fetchVars, streamErr>>
    /\ UNCHANGED callVars
    /\ UNCHANGED regexVars
    /\ UNCHANGED exists

GenEnd ==
    /\ kind = "gen"
    /\ pc = "stream"
    /\ pc' = "returned"
    /\ UNCHANGED <<kind, handlerVars, fetchVars, streamVars>>
    /\ UNCHANGED callVars
    /\ UNCHANGED regexVars
    /\ UNCHANGED exists

\* the completion call rejects: the catch block yields the failure as text, and the
\* generator is suspended at that yield
GenCreateFail(message) ==
    /\ kind = "gen"
    /\ pc = "create"
    /\ yielded' = Append(yielded, ErrorText(message))
    /\ pc' = "caught"
    /\ UNCHANGED <<kind, handlerVars, fetchVars, consumed, streamErr>>
    /\ UNCHANGED callVars
    /\ UNCHANGED regexVars
    /\ UNCHANGED exists

\* the stream throws while it is iterated: the same catch block
GenStreamFail(message) ==
    /\ kind = "gen"
    /\ pc = "stream"
    /\ streamErr' = Some(message)
    /\ yielded' = Append(yielded, ErrorText(message))
    /\ pc' = "caught"
    /\ UNCHANGED <<kind, handlerVars, fetchVars, consumed>>
    /\ UNCHANGED callVars
    /\ UNCHANGED regexVars
    /\ UNCHANGED exists

----------------------------------------------------------------------------
(* fetchFilesBatch (library) *)

\* the maxConcurrent arguments tried: the default and small explicit widths
Widths == (0..MaxWidth) \cup {DEFAULT_MAX_CONCURRENT}

BatchStart(paths, width) ==
    /\ kind = "idle"
    /\ kind' = "batch"
    /\ EnterLoop("batch", paths, width)
    /\ pc' = IF paths = <<>> THEN "returned" ELSE "fetch"
    /\ UNCHANGED <<handlerVars, streamVars>>
    /\ UNCHANGED callVars
    /\ UNCHANGED regexVars
    /\ UNCHANGED exists

BatchReturn ==
    /\ kind = "batch"
    /\ ChunkSettled
    /\ ~MoreChunks
    /\ fResults' = Pushed
    /\ pc' = "returned"
    /\ UNCHANGED <<kind, handlerVars, fVariant, fPaths, fWidth, fI, fChunk, fIssued,
                   fOutcome, streamVars>>
    /\ UNCHANGED callVars
    /\ UNCHANGED regexVars
    /\ UNCHANGED exists

----------------------------------------------------------------------------
(* The selector as a function: analyzeFileSelection (library) and            *)
(* selectRelevantFiles (chat handler), called with a query and a tree        *)

\* most names in a rendering, and most files in a model response, given to a selector
MaxListed == 17

\* what a call came to: a returned value or a raised error
Returned(value) == [raised |-> FALSE, value |-> value]
Raised(message) == [raised |-> TRUE, message |-> message]

\* the early return of analyzeFileSelection
AnalyzeExplicit(mentioned) ==
    [files |-> Arr(Slice(mentioned, 0, 15)),
     reason |-> Some("Files explicitly mentioned in query"),
     tier |-> "explicit"]

\* the try / catch of analyzeFileSelection around the model call: parsed.files.slice
\* throws on an absent files field, parsed.reason is taken as it is
AnalyzeFromModel(resp) ==
    IF resp.kind = "json" /\ HasSlice(resp.files)
    THEN [files |-> SliceOf(resp.files, 15), reason |-> resp.reason, tier |-> "ai"]
    ELSE [files |-> Arr(<<"README.md", "package.json", "src/index.js", "src/App.jsx">>),
          reason |-> Some("Fallback to common entry files"),
          tier |-> "fallback"]

SelectorFns == {"analyzeFileSelection", "selectRelevantFiles"}

\* file names that all occur in the first query
NamePool ==
    <<<<"a">>, <<"d">>, <<"e">>, <<"i">>,
      <<"j">>, <<"l">>, <<"n">>, <<"p">>,
      <<"s">>, <<"x">>, <<"i", "n">>, <<"e", "x">>,
      <<"d", "e">>, <<"j", "s">>, <<"a", "i">>, <<"l", "a">>,
      <<"p", "l">>, <<"x", "p">>, <<"n", "d">>, <<"i", "n", "d">>>>

\* a directory of n files named from the pool
WideTree(n) == [k \in 1..n |-> FileNode(NamePool[((k - 1) % Len(NamePool)) + 1])]

\* a tree with one file named index.js
FlatTree == <<FileNode(N_README), FileNode(N_INDEX)>>

\* the trees whose renderings are given to the selectors
SourceTrees == {<<>>, SmallTree, FlatTree, WideTree(MaxListed)}

\* the fileTree / tree argument: absent, or a rendering
SelectorTrees == {None} \cup {Some(treeToString(t, <<>>)) : t \in SourceTrees}

\* the model's answers given to the selectors: those of the chat requests, a files
\* field that is no list, a list without a reason, lists of up to MaxListed paths
SelectorResponses ==
    SelectResponses
        \cup {SelectResponse("json", Other, Some("the entry points")),
              SelectResponse("json", Str(<<"s", "r", "c", "/", "c", "o", "m", "p", "o", "n", "e", "n", "t", "s", "/", "A", "p", "p", ".", "j", "s", "x">>), Some("the entry points")),
              SelectResponse("json", Arr(<<"index.js">>), None),
              SelectResponse("json", Undefined, None)}
        \cup {SelectResponse("json",
                             Arr([k \in 1..n |-> StringOf(WideTree(n)[k].name)]),
                             Some("the entry points")) : n \in 0..MaxListed}

\* the names the called selector finds mentioned
MentionedBy(fn, query, tree) ==
    IF fn = "analyzeFileSelection"
    THEN extractMentionedFiles(query, tree[1])
    ELSE findMentionedFiles(query, tree[1])

ExplicitBy(fn, mentioned) ==
    IF fn = "analyzeFileSelection" THEN AnalyzeExplicit(mentioned) ELSE SelectExplicit(mentioned)

FromModelBy(fn, resp) ==
    IF fn = "analyzeFileSelection" THEN AnalyzeFromModel(resp) ELSE SelectFromModel(resp)

\* the call with an absent tree: split is read off undefined, outside every try block
SelectorRaises(fn, query, tree) ==
    /\ kind = "idle"
    /\ TreeThrows(tree)
    /\ kind' = "select"
    /\ args' = Some([fn |-> fn, query |-> query, tree |-> tree])
    /\ result' = Some(Raised("Cannot read properties of undefined (reading 'split')"))
    /\ pc' = "raised"
    /\ UNCHANGED <<asked, handlerVars, fetchVars, streamVars>>
    /\ UNCHANGED regexVars
    /\ UNCHANGED exists

\* the call with names of the rendering in the query: the early return
SelectorExplicit(fn, query, tree) ==
    /\ kind = "idle"
    /\ ~TreeThrows(tree)
    /\ HasMentions(MentionedBy(fn, query, tree))
    /\ kind' = "select"
    /\ args' = Some([fn |-> fn, query |-> query, tree |-> tree])
    /\ result' = Some(Returned(ExplicitBy(fn, MentionedBy(fn, query, tree))))
    /\ pc' = "returned"
    /\ UNCHANGED <<asked, handlerVars, fetchVars, streamVars>>
    /\ UNCHANGED regexVars
    /\ UNCHANGED exists

\* the call without such names: the selection call to the model is awaited
SelectorAsksModel(fn, query, tree) ==
    /\ kind = "idle"
    /\ ~TreeThrows(tree)
    /\ ~HasMentions(MentionedBy(fn, query, tree))
    /\ kind' = "select"
    /\ args' = Some([fn |-> fn, query |-> query, tree |-> tree])
    /\ asked' = Append(asked, None)
    /\ pc' = "select"
    /\ UNCHANGED <<result, handlerVars, fetchVars, streamVars>>
    /\ UNCHANGED regexVars
    /\ UNCHANGED exists

\* the model call settles, one way or another, and the selector returns
SelectorModelAnswers(resp) ==
    /\ kind = "select"
    /\ pc = "select"
    /\ asked' = [asked EXCEPT ![Len(asked)] = Some(resp)]
    /\ result' = Some(Returned(FromModelBy(args[1].fn, resp)))
    /\ pc' = "returned"
    /\ UNCHANGED <<kind, args, handlerVars, fetchVars, streamVars>>
    /\ UNCHANGED regexVars
    /\ UNCHANGED exists

----------------------------------------------------------------------------
(* The context assembler: buildContextWithLimit (library) and buildContext  *)
(* (chat handler).  Both read of a content only its length and, where a cut *)
(* is cleaned up, the place of its line breaks: a content is modelled by    *)
(* its length and the length of its lines, a context by its pieces.         *)

\* most files handed to an assembler
MaxFiles == 3

CHARS_PER_TOKEN == 4
SAFE_CONTEXT_TOKENS == 80000
\* buildContext's own budget
MAX_TOKENS == 80000
MAX_CHARS == MAX_TOKENS * CHARS_PER_TOKEN

\* a text of len characters with a line break at the end of every line of lineLen
\* characters (lineLen = 0: no line break at all)
Text(len, lineLen) == [len |-> len, lineLen |-> lineLen]

\* !file.content is false: the content is neither null nor the empty string
HasContent(file) == file.content # None /\ file.content[1].len > 0

\* estimateTokens, of a text of n characters: Math.ceil(n / CHARS_PER_TOKEN)
estimateTokens(n) ==
    IF n = 0 THEN 0 ELSE (n + CHARS_PER_TOKEN - 1) \div CHARS_PER_TOKEN

\* the length of the header line "\n--- FILE: " path " ---\n"
HeaderLength(path) == Len("\n--- FILE: ") + Len(path) + Len(" ---\n")

TRUNCATION_NOTE == "\n\n[... content truncated due to length ...]"

\* truncated.lastIndexOf("\n") within the first n characters of a text (0-based, -1
\* when there is none)
LastNewline(text, n) ==
    IF text.lineLen = 0 \/ n < text.lineLen
    THEN -1
    ELSE text.lineLen * (n \div text.lineLen) - 1

\* truncateToTokenLimit(text, maxTokens): how many characters are kept and what is
\* put after them
truncateToTokenLimit(text, maxTokens) ==
    IF estimateTokens(text.len) <= maxTokens
    THEN [taken |-> text.len, note |-> "", truncated |-> FALSE]
    ELSE LET maxChars    == maxTokens * CHARS_PER_TOKEN
             lastNewline == LastNewline(text, Min(maxChars, text.len))
         IN [taken |-> IF 5 * lastNewline > 4 * maxChars
                       THEN lastNewline
                       ELSE Min(maxChars, text.len),
             note |-> TRUNCATION_NOTE,
             truncated |-> TRUE]

\* a piece of a context: the header of a file, the first taken characters of its
\* content, and what follows them
Piece(path, taken, tail) == [path |-> path, taken |-> taken, tail |-> tail]

PieceLength(piece) == HeaderLength(piece.path) + piece.taken + Len(piece.tail)

RECURSIVE ContextLength(_)
ContextLength(context) ==
    IF context = <<>> THEN 0 ELSE PieceLength(context[1]) + ContextLength(Tail(context))

\* the entry put first, not last: a mutant of Push
PushFront(list, entry) == <<entry>> \o list

\* array.push(entry)
Push(list, entry) == Append(list, entry)

\* the loop of buildContextWithLimit over the files left, from the locals so far
RECURSIVE LimitLoop(_, _, _)
LimitLoop(files, maxTokens, locals) ==
    IF files = <<>>
    THEN locals
    ELSE LET file == files[1]
         IN IF ~HasContent(file)
            THEN LimitLoop(Tail(files), maxTokens, locals)
            ELSE LET text       == file.content[1]
                     fileTokens == estimateTokens(HeaderLength(file.path) + text.len + 1)
                 IN IF locals.totalTokens + fileTokens > maxTokens
                    THEN LET remainingTokens == maxTokens - locals.totalTokens - 100
                             cut             == truncateToTokenLimit(text, remainingTokens)
                         IN IF remainingTokens > 500
                            THEN [locals EXCEPT
                                     !.context = @ \o <<Piece(file.path, cut.taken,
                                                              cut.note \o "\n")>>,
                                     !.includedFiles =
                                         Push(@, [path |-> file.path, truncated |-> TRUE])]
                            ELSE [locals EXCEPT !.skippedFiles = Push(@, file.path)]
                    ELSE LimitLoop(Tail(files), maxTokens,
                             [locals EXCEPT
                                 !.context = @ \o <<Piece(file.path, text.len, "\n")>>,
                                 !.totalTokens = @ + fileTokens,
                                 !.includedFiles =
                                     Push(@, [path |-> file.path, truncated |-> FALSE])])

buildContextWithLimit(files, maxTokens) ==
    LimitLoop(files, maxTokens,
              [context |-> <<>>, totalTokens |-> 0, includedFiles |-> <<>>,
               skippedFiles |-> <<>>])

\* the loop of buildContext over the files left, from the locals so far
RECURSIVE ContextLoop(_, _)
ContextLoop(files, locals) ==
    IF files = <<>>
    THEN locals
    ELSE LET file == files[1]
         IN IF ~HasContent(file)
            THEN ContextLoop(Tail(files), locals)
            ELSE LET text       == file.content[1]
                     blockChars == HeaderLength(file.path) + text.len + 1
                 IN IF locals.totalChars + blockChars > MAX_CHARS
                    THEN LET remaining == MAX_CHARS - locals.totalChars - 100
                         IN IF remaining > 500
                            THEN [locals EXCEPT
                                     !.context = @ \o <<Piece(file.path,
                                                              Min(remaining, text.len),
                                                              "\n[truncated]\n")>>]
                            ELSE locals
                    ELSE ContextLoop(Tail(files),
                             [locals EXCEPT
                                 !.context = @ \o <<Piece(file.path, text.len, "\n")>>,
                                 !.totalChars = @ + blockChars])

buildContext(files) ==
    ContextLoop(files, [context |-> <<>>, totalChars |-> 0]).context

\* the paths of the files handed over, by position
ContextPaths == <<"a.js", "b.js", "c.js", "d.js", "e.js">>

\* the contents handed over: none (the fetch failed), the empty string, and texts
\* whose blocks come to 100, 500, 1000 and 79850 tokens
Contents ==
    {None, Some(Text(0, 0)), Some(Text(379, 0)), Some(Text(1979, 80)),
     Some(Text(3979, 80)), Some(Text(319378, 80))}

\* the lists of n file records
FileLists(n) ==
    {[k \in 1..n |-> [path |-> ContextPaths[k], content |-> c[k]]] :
        c \in [1..n -> Contents]}

\* a path of len characters, deep in the repository
RECURSIVE Repeated(_, _)
Repeated(c, n) ==
    IF n = 0 THEN ""
    ELSE IF n % 2 = 0 THEN Repeated(c, n \div 2) \o Repeated(c, n \div 2)
    ELSE c \o Repeated(c, n - 1)
DeepPath(len) == Repeated("d", len - Len("/a.js")) \o "/a.js"
DeepPaths == {DeepPath(80), DeepPath(400)}

\* the lists of n file records whose last file lies deep
DeepLists(n) ==
    IF n = 0 THEN {}
    ELSE {[l EXCEPT ![n].path = p] : l \in FileLists(n), p \in DeepPaths}

\* the budgets asked for: the default and a small one
Budgets == {SAFE_CONTEXT_TOKENS, 1000}

BuildContextWithLimitCall(files, maxTokens) ==
    /\ kind = "idle"
    /\ kind' = "context"
    /\ args' = Some([fn |-> "buildContextWithLimit", files |-> files,
                     maxTokens |-> maxTokens])
    /\ result' = Some(Returned(buildContextWithLimit(files, maxTokens)))
    /\ pc' = "returned"
    /\ UNCHANGED <<asked, handlerVars, fetchVars, streamVars>>
    /\ UNCHANGED regexVars
    /\ UNCHANGED exists

BuildContextCall(files) ==
    /\ kind = "idle"
    /\ kind' = "context"
    /\ args' = Some([fn |-> "buildContext", files |-> files, maxTokens |-> MAX_TOKENS])
    /\ result' = Some(Returned(buildContext(files)))
    /\ pc' = "returned"
    /\ UNCHANGED <<asked, handlerVars, fetchVars, streamVars>>
    /\ UNCHANGED regexVars
    /\ UNCHANGED exists

----------------------------------------------------------------------------
(* Regular expressions.  A pattern is a sequence of pieces: a word-boundary *)
(* assertion, or a character class with a repetition range that is matched *)
(* greedily and given back one character at a time, as the engine does.     *)
(* Offsets are 0-based, as in the code.                                     *)

\* a class, negated or not, taken min to max times: max is None for * and +
Atom(set, neg, min, max) ==
    [type |-> "class", set |-> set, neg |-> neg, min |-> min, max |-> max]

\* \b
Boundary == [type |-> "boundary", set |-> {}, neg |-> FALSE, min |-> 0, max |-> None]

\* one literal character, and the same under the i flag
Lit(c)  == Atom({c}, FALSE, 1, Some(1))
LitI(c) == Atom({c, toLowerCase(<<c>>)[1]} \cup {UpperCase[u] : u \in {v \in 1..26 : LowerCase[v] = c}},
                FALSE, 1, Some(1))

Word(text)  == [k \in 1..Len(text) |-> Lit(text[k])]
WordI(text) == [k \in 1..Len(text) |-> LitI(text[k])]

\* \s (the members that occur in the scanned texts), \w
WhiteSpace == {" ", "\t", LF, CR}
WordChars  == {UpperCase[u] : u \in 1..26} \cup {LowerCase[u] : u \in 1..26}
                  \cup {"0", "1", "2", "3", "4", "5", "6", "7", "8", "9", "_"}

\* \s*, [^...]+, ['"]
Spaces      == Atom(WhiteSpace, FALSE, 0, None)
OneOrMoreNot(set) == Atom(set, TRUE, 1, None)
Quote       == Atom({"'", "\""}, FALSE, 1, Some(1))

InClass(piece, c) == (c \in piece.set) # piece.neg

\* how many characters from pos on the piece can take at most
RECURSIVE Run(_, _, _, _)
Run(piece, text, pos, n) ==
    IF /\ pos + n < Len(text)
       /\ (piece.max = None \/ n < piece.max[1])
       /\ InClass(piece, text[pos + n + 1])
    THEN Run(piece, text, pos, n + 1)
    ELSE n

AtBoundary(text, pos) ==
    (pos > 0 /\ text[pos] \in WordChars) # (pos < Len(text) /\ text[pos + 1] \in WordChars)

\* the end offset of the match of pieces k.. at pos: None, or Some(offset)
RECURSIVE MatchHere(_, _, _, _)
RECURSIVE GiveBack(_, _, _, _, _)
MatchHere(pattern, k, text, pos) ==
    IF k > Len(pattern)
    THEN Some(pos)
    ELSE IF pattern[k].type = "boundary"
    THEN IF AtBoundary(text, pos) THEN MatchHere(pattern, k + 1, text, pos) ELSE None
    ELSE GiveBack(pattern, k, text, pos, Run(pattern[k], text, pos, 0))

GiveBack(pattern, k, text, pos, n) ==
    IF n < pattern[k].min
    THEN None
    ELSE LET end == MatchHere(pattern, k + 1, text, pos + n)
         IN IF end # None THEN end ELSE GiveBack(pattern, k, text, pos, n - 1)

\* the leftmost match that starts at s or later
RECURSIVE Search(_, _, _)
Search(pattern, text, s) ==
    IF s > Len(text)
    THEN None
    ELSE LET end == MatchHere(pattern, 1, text, s)
         IN IF end # None
            THEN Some([index |-> s, end |-> end[1]])
            ELSE Search(pattern, text, s + 1)

\* RegExp.prototype.exec of a g-flagged expression whose lastIndex is from: the
\* match (None for null) and the lastIndex it leaves
exec(pattern, text, from) ==
    LET m == IF from > Len(text) THEN None ELSE Search(pattern, text, from)
    IN IF m = None
       THEN [match |-> None, lastIndex |-> 0]
       ELSE [match |-> Some(m[1].index), lastIndex |-> m[1].end]

----------------------------------------------------------------------------
(* The pattern scanner: runPatternScan (scan handler), scanFile and         *)
(* scanFiles (library)                                                      *)

W_EVAL       == <<"e", "v", "a", "l">>
W_INNERHTML  == <<".", "i", "n", "n", "e", "r", "H", "T", "M", "L">>
W_CREATEHASH == <<"c", "r", "e", "a", "t", "e", "H", "a", "s", "h">>
W_MD5        == <<"m", "d", "5">>

\* /\beval\s*\([^)]+\)/g
EvalUsage ==
    [id |-> "eval-usage", severity |-> "critical", title |-> "eval() Usage",
     pattern |-> <<Boundary>> \o Word(W_EVAL) \o <<Spaces, Lit("("), OneOrMoreNot({")"}), Lit(")")>>]

\* /\.innerHTML\s*=\s*[^;]+/g
InnerHtml ==
    [id |-> "innerhtml", severity |-> "high", title |-> "innerHTML Assignment",
     pattern |-> Word(W_INNERHTML) \o <<Spaces, Lit("="), Spaces, OneOrMoreNot({";"})>>]

\* /createHash\s*\(\s*['"]md5['"]\)/gi
Md5Usage ==
    [id |-> "md5-usage", severity |-> "medium", title |-> "MD5 Hash Usage",
     pattern |-> WordI(W_CREATEHASH) \o <<Spaces, Lit("("), Spaces, Quote>> \o WordI(W_MD5)
                     \o <<Quote, Lit(")")>>]

\* three rules of each module's rule table, in the table's order
SECURITY_PATTERNS(table) ==
    IF table = "handler"
    THEN <<EvalUsage, InnerHtml, Md5Usage>>
    ELSE <<InnerHtml, EvalUsage, Md5Usage>>

Tables == {"handler", "library"}

\* every regular expression as it is when its module is loaded
FreshIndex == [t \in Tables |-> <<0, 0, 0>>]

\* the line found when the running total only has to reach the offset (>=): a mutant
RECURSIVE LineLoopReaching(_, _, _, _)
LineLoopReaching(lines, position, i, charCount) ==
    IF i >= Len(lines)
    THEN 1
    ELSE LET count == charCount + Len(lines[i + 1]) + 1
         IN IF count >= position THEN i + 1 ELSE LineLoopReaching(lines, position, i + 1, count)

lineNumberReaching(lines, position) == LineLoopReaching(lines, position, 0, 0)

\* for (i = 0; i < lines.length; i++) { charCount += lines[i].length + 1;
\*   if (charCount > position) { lineNumber = i + 1; break; } }
RECURSIVE LineLoop(_, _, _, _)
LineLoop(lines, position, i, charCount) ==
    IF i >= Len(lines)
    THEN 1
    ELSE LET count == charCount + Len(lines[i + 1]) + 1
         IN IF count > position THEN i + 1 ELSE LineLoop(lines, position, i + 1, count)

lineNumber(lines, position) == LineLoop(lines, position, 0, 0)

\* the finding pushed for a match; the library's has no source field
PatternFinding(table, rule, path, line) ==
    IF table = "handler"
    THEN [id |-> <<rule.id, path, line>>, file |-> path, line |-> line,
          severity |-> rule.severity, title |-> rule.title,
          confidence |-> "high", source |-> "pattern"]
    ELSE [id |-> <<rule.id, path, line>>, file |-> path, line |-> line,
          severity |-> rule.severity, title |-> rule.title,
          confidence |-> "high"]

\* while ((match = pattern.pattern.exec(content)) !== null) { ... push }
RECURSIVE ExecLoop(_, _, _, _, _, _)
ExecLoop(table, rule, path, text, from, found) ==
    LET r == exec(rule.pattern, text, from)
    IN IF r.match = None
       THEN [findings |-> found, lastIndex |-> r.lastIndex]
       ELSE ExecLoop(table, rule, path, text, r.lastIndex,
                     Append(found, PatternFinding(table, rule, path,
                                                  lineNumber(split(text), r.match[1]))))

\* one exec from where the expression stands, and no more: a mutant of PatternPass
PatternPassOnce(table, rule, path, text, from) ==
    LET r == exec(rule.pattern, text, from)
    IN IF r.match = None
       THEN [findings |-> <<>>, lastIndex |-> r.lastIndex]
       ELSE [findings |-> <<PatternFinding(table, rule, path,
                                           lineNumber(split(text), r.match[1]))>>,
             lastIndex |-> r.lastIndex]

\* the body of the loop over the rules, for an expression whose lastIndex is from:
\* pattern.pattern.lastIndex = 0, then the exec loop
PatternPass(table, rule, path, text, from) == ExecLoop(table, rule, path, text, 0, <<>>)

\* for (const pattern of SECURITY_PATTERNS): the findings and every lastIndex after
RECURSIVE RuleLoop(_, _, _, _, _, _)
RuleLoop(table, k, path, text, index, found) ==
    IF k > Len(SECURITY_PATTERNS(table))
    THEN [findings |-> found, lastIndex |-> index]
    ELSE LET pass == PatternPass(table, SECURITY_PATTERNS(table)[k], path, text, index[k])
         IN RuleLoop(table, k + 1, path, text, [index EXCEPT ![k] = pass.lastIndex],
                     found \o pass.findings)

\* !content (|| typeof content !== "string"): a content is None or Some(text)
NoContent(content) == content = None \/ content[1] = <<>>

\* the library's allow-list
LIBRARY_CODE_EXTENSIONS ==
    {".js", ".jsx", ".ts", ".tsx", ".mjs", ".cjs", ".py", ".rb", ".php", ".java", ".go",
     ".rs", ".vue", ".svelte"}

\* String.prototype.lastIndexOf("."): -1 without a dot
lastIndexOfDot(path) ==
    IF \E k \in 1..Len(path) : path[k] = "."
    THEN (CHOOSE k \in 1..Len(path) : path[k] = "." /\ \A j \in (k + 1)..Len(path) : path[j] # ".") - 1
    ELSE -1

\* path.substring(path.lastIndexOf(".")).toLowerCase(): substring(-1) is the whole path
extensionOf(path) ==
    LET at == lastIndexOfDot(path)
    IN StringOf(toLowerCase(SubSeq(path, (IF at < 0 THEN 0 ELSE at) + 1, Len(path))))

\* scanFile(filePath, content) with the library's expressions as they stand
scanFile(path, content, index) ==
    IF NoContent(content)
    THEN [findings |-> <<>>, lastIndex |-> index]
    ELSE IF extensionOf(path) \notin LIBRARY_CODE_EXTENSIONS
    THEN [findings |-> <<>>, lastIndex |-> index]
    ELSE RuleLoop("library", 1, path, content[1], index, <<>>)

T_EVAL_X   == <<"e", "v", "a", "l", "(", "x", ")">>
T_HASH   == <<"c", "r", "e", "a", "t", "e", "H", "a", "s", "h", "(", "'", "m", "d", "5", "'", ")">>
T_README == <<"#", " ", "r", "e", "a", "d", "m", "e">>

\* the characters of the contents the repository holds
RemoteTexts == {<<>>, T_EVAL_X \o <<LF>> \o T_HASH, T_README}
CharsOf(content) == CHOOSE t \in RemoteTexts : StringOf(t) = content

\* the files of the repository that have a text
RepositoryFiles ==
    {[path |-> p, text |-> CharsOf(RemoteAnswer(p).content)] :
        p \in {q \in AllPaths : RemoteAnswer(q).ok /\ RemoteAnswer(q).type = "file"}}

\* the loop over the rules for each file of the repository, from expressions at rest:
\* worked out once, since it is the same in every state
KnownScans ==
    [f \in RepositoryFiles |->
        RuleLoop("handler", 1, f.path, f.text, FreshIndex["handler"], <<>>)]

\* the loop over the rules for one file: looked up where it was worked out
ScanOne(path, text, index) ==
    IF index = FreshIndex["handler"] /\ [path |-> path, text |-> text] \in DOMAIN KnownScans
    THEN KnownScans[[path |-> path, text |-> text]]
    ELSE RuleLoop("handler", 1, path, text, index, <<>>)

\* runPatternScan(files) with the handler's expressions as they stand
RECURSIVE runPatternScan(_, _)
runPatternScan(files, index) ==
    IF files = <<>>
    THEN [findings |-> <<>>, lastIndex |-> index]
    ELSE LET first == IF NoContent(files[1].content)
                      THEN [findings |-> <<>>, lastIndex |-> index]
                      ELSE ScanOne(files[1].path, files[1].content[1], index)
             rest  == runPatternScan(Tail(files), first.lastIndex)
         IN [findings |-> first.findings \o rest.findings, lastIndex |-> rest.lastIndex]

----------------------------------------------------------------------------
(* The scanner called on its own *)

\* how many files are scanned one after the other
MaxScans == 3

T_EVAL_Y   == <<"e", "v", "a", "l", "(", "y", ")">>
T_ASSIGN   == <<"e", "l", ".", "i", "n", "n", "e", "r", "H", "T", "M", "L", " ", "=", " ", "a">>
T_SUM      == <<"+", " ", "b", ";">>
T_MD5      == <<"C", "r", "e", "a", "t", "e", "H", "a", "s", "h", "(", "'", "m", "d", "5", "'", ")">>
T_MEDIEVAL == <<"m", "e", "d", "i", "e", "v", "a", "l", "(", "x", ")">>
N_MAIN_RS  == <<"m", "a", "i", "n", ".", "r", "s">>
N_UPPER    == <<"A", "P", "I", ".", "J", "S">>

\* matches on the first line, on a last line that has no line break, right after a
\* line break, twice on a line, over a line break, and none
TwoLines    == <<"a", LF>> \o T_EVAL_X
ThreeEvals  == T_EVAL_X \o <<LF, LF>> \o T_EVAL_Y \o <<";">> \o T_EVAL_X \o <<LF>>
OverTheLine == T_ASSIGN \o <<LF>> \o T_SUM \o <<LF>> \o T_EVAL_X
HashCall    == <<LF, CR, LF>> \o T_MD5

ScanFile(path, content) == [path |-> path, content |-> content]

ScanPool ==
    {ScanFile(N_INDEX, Some(TwoLines)), ScanFile(N_INDEX, Some(ThreeEvals)),
     ScanFile(N_INDEX, Some(OverTheLine)), ScanFile(N_UPPER, Some(HashCall)),
     ScanFile(N_INDEX, Some(T_MEDIEVAL)), ScanFile(N_INDEX, None),
     ScanFile(N_README, Some(ThreeEvals)), ScanFile(N_MAIN_RS, Some(TwoLines))}

ScanLists == UNION {[1..n -> ScanPool] : n \in 0..MaxScans}

\* one call of scanFile; the library's expressions live as long as the module
ScanFileCall(file) ==
    /\ kind \in {"idle", "scanFile"}
    /\ Len(scans) < MaxScans
    /\ LET r == scanFile(file.path, file.content, lastIndex["library"])
       IN /\ lastIndex' = [lastIndex EXCEPT !["library"] = r.lastIndex]
          /\ scans' = Append(scans, [file |-> file, findings |-> r.findings])
          /\ result' = Some(Returned(r.findings))
    /\ args' = Some(<<file>>)
    /\ kind' = "scanFile"
    /\ pc' = "returned"
    /\ UNCHANGED <<asked, handlerVars, fetchVars, streamVars>>
    /\ UNCHANGED exists

\* one call of runPatternScan
RunPatternScanCall(files) ==
    /\ kind = "idle"
    /\ LET r == runPatternScan(files, lastIndex["handler"])
       IN /\ lastIndex' = [lastIndex EXCEPT !["handler"] = r.lastIndex]
          /\ result' = Some(Returned(r.findings))
    /\ args' = Some(files)
    /\ kind' = "runPatternScan"
    /\ pc' = "returned"
    /\ UNCHANGED <<asked, scans, handlerVars, fetchVars, streamVars>>
    /\ UNCHANGED exists

----------------------------------------------------------------------------
(* The scan handler, from the fetched files to the complete event *)




\* the files fetchFiles returned, as runPatternScan reads them
FetchedFiles(results) ==
    [k \in 1..Len(results) |->
        [path |-> results[k].path, content |-> Some(CharsOf(results[k].content[1]))]]

Digits == <<"0", "1", "2", "3", "4", "5", "6", "7", "8", "9">>

\* a number in a template literal
RECURSIVE NumberString(_)
NumberString(n) ==
    IF n < 10 THEN Digits[n + 1] ELSE NumberString(n \div 10) \o Digits[(n % 10) + 1]

\* `${f.file}:${f.line}:${f.title}`; a path is a string in the handler's findings
\* and a sequence of characters in the library's
keyOf(table, f) ==
    (IF table = "handler" THEN f.file ELSE StringOf(f.file))
        \o ":" \o NumberString(f.line) \o ":" \o f.title

\* a filter that forgets a key when it drops a finding: a mutant of SeenFilter
RECURSIVE SeenFilterForgets(_, _, _)
SeenFilterForgets(table, findings, seen) ==
    IF findings = <<>>
    THEN <<>>
    ELSE IF keyOf(table, findings[1]) \in seen
    THEN SeenFilterForgets(table, Tail(findings), seen \ {keyOf(table, findings[1])})
    ELSE <<findings[1]>> \o SeenFilterForgets(table, Tail(findings), seen \cup {keyOf(table, findings[1])})

\* a filter that lets the last finding of a key through, not the first: a mutant
RECURSIVE SeenFilterKeepsLast(_, _, _)
SeenFilterKeepsLast(table, findings, seen) ==
    IF findings = <<>>
    THEN <<>>
    ELSE IF \E k \in 2..Len(findings) : keyOf(table, findings[k]) = keyOf(table, findings[1])
    THEN SeenFilterKeepsLast(table, Tail(findings), seen)
    ELSE <<findings[1]>> \o SeenFilterKeepsLast(table, Tail(findings), seen)

\* findings.filter((f) => { if (seen.has(key)) return false; seen.add(key); return true; })
RECURSIVE SeenFilter(_, _, _)
SeenFilter(table, findings, seen) ==
    IF findings = <<>>
    THEN <<>>
    ELSE IF keyOf(table, findings[1]) \in seen
    THEN SeenFilter(table, Tail(findings), seen)
    ELSE <<findings[1]>> \o SeenFilter(table, Tail(findings), seen \cup {keyOf(table, findings[1])})

deduplicateFindings(findings) == SeenFilter("handler", findings, {})

\* every deduplicated finding let through: a mutant of FinalFilter
FinalFilterAll(findings) == findings

\* allFindings.filter(f => severity critical or high, or confidence high)
FinalFilter(findings) ==
    SelectSeq(findings,
              LAMBDA f : f.severity = "critical" \/ f.severity = "high" \/ f.confidence = "high")

WithSeverity(findings, severity) == SelectSeq(findings, LAMBDA f : f.severity = severity)

groupBySeverity(findings) ==
    [critical |-> WithSeverity(findings, "critical"), high |-> WithSeverity(findings, "high"),
     medium |-> WithSeverity(findings, "medium"), low |-> WithSeverity(findings, "low")]

\* the severities generateSummary counts, in the order it lists them
SummarySeverities == <<"critical", "high", "medium", "low">>

\* generateSummary: "No security vulnerabilities detected." for no findings, else
\* `Found ${total} potential issue(s): ${parts.join(", ")}` with one part
\* `${count} ${severity}` for every bucket that is not empty; the text is kept as its
\* pieces
generateSummary(findings) ==
    LET total   == Len(findings)
        grouped == groupBySeverity(findings)
        part(s) == [count |-> Len(grouped[s]), severity |-> s]
    IN IF total = 0
       THEN [text |-> "No security vulnerabilities detected.", total |-> 0, plural |-> FALSE,
             parts |-> <<>>]
       ELSE [text |-> "Found potential issues", total |-> total, plural |-> total # 1,
             parts |-> SelectSeq([k \in 1..Len(SummarySeverities) |-> part(SummarySeverities[k])],
                                 LAMBDA q : q.count # 0)]

\* a finding as the model words it
ModelFinding(file, line, severity, title) ==
    [file |-> file, line |-> line, severity |-> severity, title |-> title,
     confidence |-> "high", source |-> "model"]

\* what the model may report on index.js: the eval the rules find too, a doubt of
\* medium severity, and a redirect of high severity
M_EVAL     == ModelFinding("index.js", 1, "low", "eval() Usage")
M_DOUBT    == ModelFinding("index.js", 5, "medium", "Weak Validation")
M_REDIRECT == ModelFinding("index.js", 9, "high", "Open Redirect")
\* a note whose severity is none of the four the prompt asks for
M_NOTE     == ModelFinding("index.js", 7, "info", "Verbose Logging")

\* what the completion call comes to: it rejects, or it resolves with a text that is
\* no JSON, or with JSON whose findings field is what it is
AIResponse(kind_, findings) == [kind |-> kind_, findings |-> findings]

AIResponses ==
    {AIResponse("rejected", Undefined), AIResponse("text", Undefined),
     AIResponse("json", Undefined), AIResponse("json", Other),
     AIResponse("json", Arr(<<>>)), AIResponse("json", Arr(<<M_DOUBT, M_EVAL>>)),
     AIResponse("json", Arr(<<M_REDIRECT, M_DOUBT, M_REDIRECT>>)),
     AIResponse("json", Arr(<<M_NOTE, M_REDIRECT>>))}

\* the confidence the model wrote is kept: a mutant of AIFinding
AIFindingKeepsConfidence(f) ==
    [id |-> <<"ai", f.file, f.line>>, file |-> f.file, line |-> f.line,
     severity |-> f.severity, title |-> f.title, confidence |-> f.confidence, source |-> "ai"]

\* .map((f) => ({ ...f, id: `ai-${f.file}-${f.line}-${Date.now()}`, confidence:
\* "medium", source: "ai" })); the time of day is left out of the id
AIFinding(f) ==
    [id |-> <<"ai", f.file, f.line>>, file |-> f.file, line |-> f.line,
     severity |-> f.severity, title |-> f.title, confidence |-> "medium", source |-> "ai"]

\* a failure of the model call kept as a finding: a mutant of runAIScan
runAIScanReportsFailure(resp) ==
    IF resp.kind = "json" /\ resp.findings.kind \in {"array", "undefined"}
    THEN [k \in 1..Len(resp.findings.items) |-> AIFinding(resp.findings.items[k])]
    ELSE <<AIFinding(ModelFinding("index.js", 1, "critical", "Analysis failed"))>>

\* runAIScan: the call, JSON.parse and (parsed.findings || []).map are in one try whose
\* catch returns []
runAIScan(resp) ==
    IF resp.kind = "json" /\ resp.findings.kind \in {"array", "undefined"}
    THEN [k \in 1..Len(resp.findings.items) |-> AIFinding(resp.findings.items[k])]
    ELSE <<>>

\* fetchFiles returned: status 40, runPatternScan, status 60, runAIScan awaits the model
PatternScanned == runPatternScan(FetchedFiles(Pushed), lastIndex["handler"])

ScanFetched ==
    /\ kind = "scan"
    /\ ChunkSettled
    /\ ~MoreChunks
    /\ fResults' = Pushed
    /\ lastIndex' = [lastIndex EXCEPT !["handler"] = PatternScanned.lastIndex]
    /\ scans' = Append(scans, [file |-> FetchedFiles(Pushed),
                                findings |-> PatternScanned.findings])
    /\ chan' = chan \o <<Status(<<"Running pattern-based scan...">>, 40),
                         Status(<<"Running AI analysis...">>, 60)>>
    /\ asked' = Append(asked, None)
    /\ pc' = "aiscan"
    /\ UNCHANGED <<kind, response, opened, connected, codeFiles,
                   fVariant, fPaths, fWidth, fI, fChunk, fIssued, fOutcome, streamVars>>
    /\ UNCHANGED <<args, result>>
    /\ UNCHANGED exists

\* patternFindings, as runPatternScan returned them
patternFindings == scans[Len(scans)].findings

\* [...patternFindings, ...aiFindings]
Merged(aiFindings) == patternFindings \o aiFindings

\* what the scan writes once runAIScan has returned
ScanSuccessTail(filteredFindings, scanned) ==
    <<Status(<<"Generating summary...">>, 90),
      sendEvent("complete", [findings |-> filteredFindings,
                             grouped |-> groupBySeverity(filteredFindings),
                             summary |-> generateSummary(filteredFindings),
                             scannedFiles |-> scanned,
                             totalFindings |-> Len(filteredFindings)]),
      Status(<<"Complete">>, 100)>>

\* runAIScan returns (it catches its own failures), the rest is synchronous
ScanAIReturn(resp) ==
    /\ kind = "scan"
    /\ pc = "aiscan"
    /\ asked' = [asked EXCEPT ![Len(asked)] = Some(resp)]
    /\ LET allFindings == deduplicateFindings(Merged(runAIScan(resp)))
       IN chan' = chan \o ScanSuccessTail(FinalFilter(allFindings), Len(codeFiles)) \o Finally
    /\ pc' = "closed"
    /\ UNCHANGED <<kind, response, opened, connected, codeFiles, fetchVars, streamVars>>
    /\ UNCHANGED <<args, result>>
    /\ UNCHANGED regexVars
    /\ UNCHANGED exists

\* scanFiles(files): every file through scanFile, duplicates dropped, sorted by
\* severity; the sort is stable, so each severity keeps its order
RECURSIVE ScanEach(_, _)
ScanEach(files, index) ==
    IF files = <<>>
    THEN [findings |-> <<>>, lastIndex |-> index]
    ELSE LET first == IF NoContent(files[1].content)
                      THEN [findings |-> <<>>, lastIndex |-> index]
                      ELSE scanFile(files[1].path, files[1].content, index)
             rest  == ScanEach(Tail(files), first.lastIndex)
         IN [findings |-> first.findings \o rest.findings, lastIndex |-> rest.lastIndex]

SortBySeverity(findings) ==
    WithSeverity(findings, "critical") \o WithSeverity(findings, "high")
        \o WithSeverity(findings, "medium") \o WithSeverity(findings, "low")

scanFiles(files, index) ==
    LET each == ScanEach(files, index)
    IN [findings |-> SortBySeverity(SeenFilter("library", each.findings, {})),
        lastIndex |-> each.lastIndex]

\* one call of scanFiles
ScanFilesCall(files) ==
    /\ kind = "idle"
    /\ LET r == scanFiles(files, lastIndex["library"])
       IN /\ lastIndex' = [lastIndex EXCEPT !["library"] = r.lastIndex]
          /\ result' = Some(Returned(r.findings))
    /\ args' = Some(files)
    /\ kind' = "scanFiles"
    /\ pc' = "returned"
    /\ UNCHANGED <<asked, scans, handlerVars, fetchVars, streamVars>>
    /\ UNCHANGED exists

\* findings of the rules and of the model on index.js
FindingPool ==
    {PatternFinding("handler", EvalUsage, "index.js", 1), AIFinding(M_EVAL),
     AIFinding(M_DOUBT), AIFinding(M_REDIRECT)}

FindingLists == UNION {[1..n -> FindingPool] : n \in 0..MaxScans}

\* one call of deduplicateFindings
DeduplicateCall(findings) ==
    /\ kind = "idle"
    /\ args' = Some(findings)
    /\ result' = Some(Returned(deduplicateFindings(findings)))
    /\ kind' = "deduplicateFindings"
    /\ pc' = "returned"
    /\ UNCHANGED <<asked, handlerVars, fetchVars, streamVars>>
    /\ UNCHANGED regexVars
    /\ UNCHANGED exists

\* the default of filterCodeFiles' maxFiles
DEFAULT_MAX_FILES == 20

\* the extension test of the handler's filter and of the library's filterCodeFiles and
\* scanFile, each against the allow-list of its own module
InAllowList(table, path) ==
    extensionOf(path) \in (IF table = "handler" THEN CODE_EXTENSIONS ELSE LIBRARY_CODE_EXTENSIONS)

\* filterCodeFiles(files, maxFiles)
filterCodeFiles(files, maxFiles) ==
    Slice(SelectSeq(files, LAMBDA file : InAllowList("library", file.path)), 0, maxFiles)

\* one call of filterCodeFiles
FilterCodeFilesCall(files) ==
    /\ kind = "idle"
    /\ args' = Some(files)
    /\ result' = Some(Returned(filterCodeFiles(files, DEFAULT_MAX_FILES)))
    /\ kind' = "filterCodeFiles"
    /\ pc' = "returned"
    /\ UNCHANGED <<asked, handlerVars, fetchVars, streamVars>>
    /\ UNCHANGED regexVars
    /\ UNCHANGED exists

----------------------------------------------------------------------------
(* Building and pruning the file tree.  The host's answer to getContent for *)
(* a directory is carried by the directory's entry: a listing of entries,   *)
(* one entry on its own, or a failure.                                      *)

\* the depth cap written into the handler's buildFileTree
HANDLER_MAX_DEPTH == 4
\* the default of the library's maxDepth parameter
DEFAULT_MAX_DEPTH == 5

\* the directories buildFileTree leaves out, per variant
skipDirs(fn) ==
    IF fn = "handler"
    THEN {"node_modules", ".git", "dist", "build", ".next", "__pycache__", "vendor",
          ".cache", "coverage"}
    ELSE {"node_modules", ".git", "dist", "build", ".next", "__pycache__", "vendor"}

\* what getContent comes to for a path
Listing(items)  == [ok |-> TRUE, array |-> TRUE, data |-> items]
Single(item)    == [ok |-> TRUE, array |-> FALSE, object |-> item]
ListingFails    == [ok |-> FALSE]

\* the entries of a listing, as the host describes them
PathUnder(dir, name) == IF dir = <<>> THEN name ELSE dir \o <<"/">> \o name
RemoteFile(dir, name, size) ==
    [name |-> name, path |-> PathUnder(dir, name), type |-> "file", size |-> size]
RemoteDir(dir, name, contents) ==
    [name |-> name, path |-> PathUnder(dir, name), type |-> "dir", size |-> 0,
     contents |-> contents]

\* the collation order of the characters of a name, case apart
Collation == <<"_", "-", ".", "/", "0", "1", "2", "3", "4", "5", "6", "7", "8", "9">>
                 \o LowerCase
CollationRank(c) ==
    LET l == toLowerCase(<<c>>)[1]
    IN CHOOSE k \in 1..Len(Collation) : Collation[k] = l

RECURSIVE PrimaryCompare(_, _)
PrimaryCompare(a, b) ==
    IF a = <<>> /\ b = <<>> THEN 0
    ELSE IF a = <<>> THEN -1
    ELSE IF b = <<>> THEN 1
    ELSE IF CollationRank(a[1]) < CollationRank(b[1]) THEN -1
    ELSE IF CollationRank(a[1]) > CollationRank(b[1]) THEN 1
    ELSE PrimaryCompare(Tail(a), Tail(b))

\* two names that differ in case only: the lower-case letter first
RECURSIVE CaseCompare(_, _)
CaseCompare(a, b) ==
    IF a = <<>> THEN 0
    ELSE IF a[1] = b[1] THEN CaseCompare(Tail(a), Tail(b))
    ELSE IF toLowerCase(<<a[1]>>)[1] = a[1] THEN -1 ELSE 1

\* String.prototype.localeCompare
localeCompare(a, b) ==
    IF PrimaryCompare(a, b) # 0 THEN PrimaryCompare(a, b) ELSE CaseCompare(a, b)

\* the comparator of the tree sort: directories first, then by name
CompareNodes(a, b) ==
    IF a.type = b.type THEN localeCompare(a.name, b.name)
    ELSE IF a.type = "dir" THEN -1 ELSE 1

\* Array.prototype.sort with that comparator; the sort is stable
RECURSIVE InsertNode(_, _)
InsertNode(sorted, node) ==
    IF sorted = <<>> THEN <<node>>
    ELSE IF CompareNodes(node, sorted[1]) < 0 THEN <<node>> \o sorted
    ELSE <<sorted[1]>> \o InsertNode(Tail(sorted), node)

RECURSIVE SortNodes(_)
SortNodes(tree) ==
    IF tree = <<>> THEN <<>>
    ELSE InsertNode(SortNodes(SubSeq(tree, 1, Len(tree) - 1)), tree[Len(tree)])

\* a cap one level too deep: a mutant of depthCap
depthCapLoose(fn, maxDepth) == maxDepth + 1

depthCap(fn, maxDepth) == IF fn = "handler" THEN HANDLER_MAX_DEPTH ELSE maxDepth

\* buildFileTree(owner, repo, path, depth, maxDepth): the tree, and the paths whose
\* listing was asked of the host, in the order they were asked
RECURSIVE buildFileTree(_, _, _, _, _)
RECURSIVE BuildLoop(_, _, _, _)
\* a directory whose listing fails is left out of the tree: a mutant of BuildLoop
BuildLoopDropsFailed(fn, items, depth, maxDepth) ==
    IF items = <<>>
    THEN [tree |-> <<>>, listed |-> <<>>]
    ELSE LET item == items[1]
             sub  == buildFileTree(fn, item.contents, item.path, depth + 1, maxDepth)
             rest == BuildLoop(fn, Tail(items), depth, maxDepth)
         IN IF item.type = "dir" /\ StringOf(item.name) \in skipDirs(fn)
            THEN rest
            ELSE IF item.type = "dir" /\ depth < depthCap(fn, maxDepth)
            THEN [tree   |-> (IF item.contents.ok
                              THEN <<[name |-> item.name, path |-> item.path,
                                      type |-> item.type, size |-> item.size,
                                      children |-> sub.tree]>>
                              ELSE <<>>) \o rest.tree,
                  listed |-> sub.listed \o rest.listed]
            ELSE [tree |-> <<[name |-> item.name, path |-> item.path,
                              type |-> item.type, size |-> item.size]>> \o rest.tree,
                  listed |-> rest.listed]

BuildLoop(fn, items, depth, maxDepth) ==
    IF items = <<>>
    THEN [tree |-> <<>>, listed |-> <<>>]
    ELSE LET item == items[1]
             node == [name |-> item.name, path |-> item.path, type |-> item.type,
                      size |-> item.size]
             sub  == buildFileTree(fn, item.contents, item.path, depth + 1, maxDepth)
             rest == BuildLoop(fn, Tail(items), depth, maxDepth)
         IN IF item.type = "dir" /\ StringOf(item.name) \in skipDirs(fn)
            THEN rest
            ELSE IF item.type = "dir" /\ depth < depthCap(fn, maxDepth)
            THEN [tree   |-> <<[name |-> item.name, path |-> item.path,
                                type |-> item.type, size |-> item.size,
                                children |-> sub.tree]>> \o rest.tree,
                  listed |-> sub.listed \o rest.listed]
            ELSE [tree |-> <<node>> \o rest.tree, listed |-> rest.listed]

buildFileTree(fn, contents, path, depth, maxDepth) ==
    IF depth > depthCap(fn, maxDepth)
    THEN [tree |-> <<>>, listed |-> <<>>]
    ELSE IF ~contents.ok
    THEN [tree |-> <<>>, listed |-> <<path>>]
    ELSE LET items == IF contents.array THEN contents.data ELSE <<contents.object>>
             built == BuildLoop(fn, items, depth, maxDepth)
         IN [tree |-> SortNodes(built.tree), listed |-> <<path>> \o built.listed]

\* pruneFileTree(tree)
SKIP_EXTENSIONS ==
    {".png", ".jpg", ".jpeg", ".gif", ".svg", ".ico", ".webp", ".mp3", ".mp4", ".wav",
     ".avi", ".mov", ".zip", ".tar", ".gz", ".rar", ".pdf", ".doc", ".docx", ".lock",
     ".log", ".woff", ".woff2", ".ttf", ".eot"}
SKIP_FILES == {"package-lock.json", "yarn.lock", "pnpm-lock.yaml", ".DS_Store", "Thumbs.db"}
SKIP_DIRS ==
    {"node_modules", ".git", "dist", "build", ".next", "__pycache__", "vendor", ".cache",
     "coverage"}

\* the filter of pruneFileTree
PruneKeeps(node) ==
    /\ ~(node.type = "dir" /\ StringOf(node.name) \in SKIP_DIRS)
    /\ node.type = "file" =>
          /\ StringOf(node.name) \notin SKIP_FILES
          /\ extensionOf(node.name) \notin SKIP_EXTENSIONS

RECURSIVE pruneFileTree(_)
pruneFileTree(tree) ==
    IF tree = <<>> THEN <<>>
    ELSE LET node == tree[1]
             rest == pruneFileTree(Tail(tree))
         IN IF ~PruneKeeps(node) THEN rest
            ELSE IF "children" \in DOMAIN node
            THEN <<[node EXCEPT !.children = pruneFileTree(node.children)]>> \o rest
            ELSE <<node>> \o rest

\* the repositories the trees are built from
N_NODE_MODULES == <<"n", "o", "d", "e", "_", "m", "o", "d", "u", "l", "e", "s">>
N_CACHE        == <<".", "c", "a", "c", "h", "e">>
N_COVERAGE     == <<"c", "o", "v", "e", "r", "a", "g", "e">>
N_BUILD        == <<"b", "u", "i", "l", "d">>
N_VENDOR       == <<"v", "e", "n", "d", "o", "r">>
N_SRC          == <<"s", "r", "c">>
N_LIB          == <<"l", "i", "b">>
N_A            == <<"a">>
N_LOGO         == <<"l", "o", "g", "o", ".", "P", "N", "G">>
N_YARN_LOCK    == <<"y", "a", "r", "n", ".", "l", "o", "c", "k">>

\* a chain of n directories named a, one inside the other, a file in the last
RECURSIVE Chain(_, _)
Chain(dir, n) ==
    IF n = 0
    THEN Listing(<<RemoteFile(dir, N_INDEX, 1)>>)
    ELSE Listing(<<RemoteDir(dir, N_A, Chain(PathUnder(dir, N_A), n - 1))>>)

\* longest chain of directories in a repository: deeper than both depth caps
ChainLength == 7

RemoteEntries ==
    <<RemoteFile(<<>>, N_INDEX, 20),
      RemoteFile(<<>>, N_COVERAGE, 5),
      RemoteFile(<<>>, N_YARN_LOCK, 900),
      RemoteDir(<<>>, N_NODE_MODULES, Listing(<<RemoteFile(N_NODE_MODULES, N_INDEX, 7)>>)),
      RemoteDir(<<>>, N_CACHE, Listing(<<RemoteFile(N_CACHE, N_INDEX, 7)>>)),
      RemoteDir(<<>>, N_SRC,
          Listing(<<RemoteFile(N_SRC, N_LOGO, 300),
                    RemoteFile(N_SRC, N_VENDOR, 2),
                    RemoteDir(N_SRC, N_BUILD,
                        Listing(<<RemoteFile(PathUnder(N_SRC, N_BUILD), N_INDEX, 9)>>)),
                    RemoteDir(N_SRC, N_COVERAGE,
                        Listing(<<RemoteFile(PathUnder(N_SRC, N_COVERAGE), N_README, 9)>>)),
                    RemoteDir(N_SRC, N_LIB, Listing(<<>>))>>)),
      RemoteDir(<<>>, N_LIB, ListingFails),
      RemoteDir(<<>>, N_A, Chain(N_A, ChainLength - 1))>>

\* most entries in the listing of the repository's root
MaxItems == 3

\* the listings of the root: entries of the pool, in the host's order or reversed
Reverse(s) == [k \in 1..Len(s) |-> s[Len(s) + 1 - k]]
RECURSIVE Picked(_, _)
Picked(entries, chosen) ==
    IF entries = <<>> THEN <<>>
    ELSE (IF Len(entries) \in chosen THEN <<entries[1]>> ELSE <<>>)
             \o Picked(Tail(entries), chosen)
RootListings ==
    LET picks == {Picked(RemoteEntries, chosen) :
                     chosen \in {c \in SUBSET (1..Len(RemoteEntries)) : Cardinality(c) <= MaxItems}}
    IN picks \cup {Reverse(p) : p \in picks}
Remotes == {Listing(l) : l \in RootListings} \cup {ListingFails, Single(RemoteEntries[1])}

\* the maxDepth arguments the library's buildFileTree is called with
MaxDepths == {DEFAULT_MAX_DEPTH, 1, 0}

\* one call of buildFileTree for the root of a repository
BuildFileTreeCall(fn, contents, maxDepth) ==
    /\ kind = "idle"
    /\ fn = "handler" => maxDepth = HANDLER_MAX_DEPTH
    /\ kind' = "buildFileTree"
    /\ args' = Some([fn |-> fn, contents |-> contents, maxDepth |-> maxDepth])
    /\ result' = Some(Returned(buildFileTree(fn, contents, <<>>, 0, maxDepth)))
    /\ pc' = "returned"
    /\ UNCHANGED <<asked, handlerVars, fetchVars, streamVars>>
    /\ UNCHANGED regexVars
    /\ UNCHANGED exists

\* the trees pruneFileTree is called with: built ones, and ones made elsewhere
BuiltTrees ==
    {buildFileTree("library", contents, <<>>, 0, DEFAULT_MAX_DEPTH).tree : contents \in Remotes}
OtherTrees ==
    {<<>>, SmallTree,
     <<DirNode(N_SRC, <<FileNode(N_LOGO), DirNode(N_BUILD, <<FileNode(N_INDEX)>>)>>),
       FileNode(N_YARN_LOCK)>>}

\* names that look like a part of a rendering, or that hold a line terminator
N_CONNECTOR == <<"a", ELBOW, DASH, DASH, " ", "b">>
N_PADDED    == <<" ", "x", " ">>
N_RETURN    == <<"a", CR, "b">>
N_TWO_LINES == <<"a", LF, "b">>

\* the trees treeToString is called with
RenderedTrees ==
    BuiltTrees \cup OtherTrees
        \cup {buildFileTree("handler", contents, <<>>, 0, HANDLER_MAX_DEPTH).tree :
                  contents \in Remotes}
        \cup {<<DirNode(N_SRC, <<FileNode(N_CONNECTOR), DirNode(N_LIB, <<>>)>>),
                 DirNode(N_CONNECTOR, <<FileNode(N_PADDED), FileNode(N_INDEX)>>),
                 FileNode(N_INDEX)>>,
               <<DirNode(N_SRC, <<FileNode(N_RETURN)>>), FileNode(N_INDEX)>>,
               <<DirNode(N_SRC, <<FileNode(N_TWO_LINES)>>), FileNode(N_INDEX)>>}

\* one call of treeToString
TreeToStringCall(tree) ==
    /\ kind = "idle"
    /\ kind' = "treeToString"
    /\ args' = Some([tree |-> tree])
    /\ result' = Some(Returned(treeToString(tree, <<>>)))
    /\ pc' = "returned"
    /\ UNCHANGED <<asked, handlerVars, fetchVars, streamVars>>
    /\ UNCHANGED regexVars
    /\ UNCHANGED exists

\* one call of pruneFileTree
PruneFileTreeCall(tree) ==
    /\ kind = "idle"
    /\ kind' = "pruneFileTree"
    /\ args' = Some([tree |-> tree])
    /\ result' = Some(Returned(pruneFileTree(tree)))
    /\ pc' = "returned"
    /\ UNCHANGED <<asked, handlerVars, fetchVars, streamVars>>
    /\ UNCHANGED regexVars
    /\ UNCHANGED exists

----------------------------------------------------------------------------
(* Repository and profile fetching: the fetch handler with its fetchRepoData *)
(* and fetchUserProfile, and the library's functions of the same names       *)

\* what a call to the host comes to
Resolved(data)            == [ok |-> TRUE, data |-> data, status |-> 200, message |-> ""]
Rejected(status, message) == [ok |-> FALSE, data |-> <<>>, status |-> status, message |-> message]

\* the answers to repos.get and users.getByUsername: a status of 0 is no status
PrimaryAnswers ==
    IF exists
    THEN {Resolved(<<"octo/repo">>), Rejected(0, "socket hang up")}
    ELSE {Rejected(404, "Not Found"), Rejected(0, "socket hang up")}

\* the answers to listContributors, listLanguages and listForUser
SecondaryAnswers ==
    {Resolved(<<"alice">>), Resolved(<<>>), Rejected(403, "API rate limit exceeded")}

FetchFns   == {"handler", "library"}
InputTypes == {"repo", "profile"}

\* the fetch handler's early returns: a method that is not POST, no input
FetchRejects == {[status |-> 405, error |-> "Method not allowed"],
                 [status |-> 400, error |-> "Input is required"]}

FetchBadRequest(r) ==
    /\ kind = "idle"
    /\ kind' = "fetch"
    /\ pc' = "responded"
    /\ response' = Some(r)
    /\ UNCHANGED <<opened, chan, connected, codeFiles, fetchVars, streamVars>>
    /\ UNCHANGED callVars
    /\ UNCHANGED regexVars
    /\ UNCHANGED exists

\* the handler, or the library function, up to its first call to the host
FetchStart(fn, type) ==
    /\ kind = "idle"
    /\ kind' = "fetch"
    /\ args' = Some([fn |-> fn, type |-> type])
    /\ asked' = <<None>>
    /\ pc' = "primary"
    /\ UNCHANGED <<result, handlerVars, fetchVars, streamVars>>
    /\ UNCHANGED regexVars
    /\ UNCHANGED exists

\* the call that is awaited settles
Settled(o) == [asked EXCEPT ![Len(asked)] = Some(o)]

\* the error that leaves fetchRepoData or fetchUserProfile: the handler's throw what
\* the host rejected with, the library's rewrite a 404
Thrown(o) ==
    IF args[1].fn = "library" /\ o.status = 404
    THEN Rejected(0, IF args[1].type = "repo"
                     THEN "Repository \"octo/repo\" not found"
                     ELSE "User \"octo\" not found")
    ELSE o

\* res.status(error.status || 500).json({ error: error.message || "Failed to ..." })
FailureResponse(error) ==
    [status |-> IF error.status = 0 THEN 500 ELSE error.status,
     error |-> IF error.message = "" THEN "Failed to fetch GitHub data" ELSE error.message]

\* the call has failed for good: the handler responds, the library call throws
Fails(o) ==
    /\ asked' = Settled(o)
    /\ pc' = "responded"
    /\ IF args[1].fn = "handler"
       THEN response' = Some(FailureResponse(Thrown(o))) /\ result' = result
       ELSE result' = Some(Raised(Thrown(o).message)) /\ response' = response

\* the data of a repository: the list calls that failed left their initial values
RepoData(answers) ==
    LET contributors == answers[Len(answers) - 1][1]
        languages    == answers[Len(answers)][1]
        data == [full_name |-> answers[1][1].data,
                 contributors |-> IF contributors.ok THEN contributors.data ELSE <<>>,
                 languages |-> IF languages.ok THEN languages.data ELSE <<>>]
    IN IF args[1].fn = "handler"
       THEN [full_name |-> data.full_name, contributors |-> data.contributors,
             languages |-> data.languages, tree |-> answers[2][1].data]
       ELSE data

ProfileData(answers) == [login |-> answers[1][1].data, repos |-> answers[2][1].data]

\* res.json({ type, data }), or the library function's return
Succeeds(answers, data) ==
    /\ asked' = answers
    /\ pc' = "responded"
    /\ IF args[1].fn = "handler"
       THEN /\ response' = Some([status |-> 200, type |-> args[1].type, data |-> data])
            /\ result' = result
       ELSE result' = Some(Returned(data)) /\ response' = response

\* repos.get or users.getByUsername settles
PrimarySettles(o) ==
    /\ kind = "fetch"
    /\ pc = "primary"
    /\ o \in PrimaryAnswers
    /\ IF o.ok
       THEN /\ asked' = Append(Settled(o), None)
            /\ pc' = IF args[1].type = "profile" THEN "repos"
                     ELSE IF args[1].fn = "handler" THEN "tree" ELSE "contributors"
            /\ UNCHANGED <<response, result>>
       ELSE Fails(o)
    /\ UNCHANGED <<kind, args, opened, chan, connected, codeFiles, fetchVars, streamVars>>
    /\ UNCHANGED regexVars
    /\ UNCHANGED exists

\* the handler's buildFileTree returns: it catches what its listings throw
TreeBuilt(tree) ==
    /\ kind = "fetch"
    /\ pc = "tree"
    /\ asked' = Append(Settled(Resolved(treeToString(tree, <<>>))), None)
    /\ pc' = "contributors"
    /\ UNCHANGED <<kind, args, result, handlerVars, fetchVars, streamVars>>
    /\ UNCHANGED regexVars
    /\ UNCHANGED exists

\* listContributors settles: a failure is caught and ignored
ContributorsSettle(o) ==
    /\ kind = "fetch"
    /\ pc = "contributors"
    /\ asked' = Append(Settled(o), None)
    /\ pc' = "languages"
    /\ UNCHANGED <<kind, args, result, handlerVars, fetchVars, streamVars>>
    /\ UNCHANGED regexVars
    /\ UNCHANGED exists

\* listLanguages settles: a failure is caught and ignored, the data is returned
LanguagesSettle(o) ==
    /\ kind = "fetch"
    /\ pc = "languages"
    /\ Succeeds(Settled(o), RepoData(Settled(o)))
    /\ UNCHANGED <<kind, args, opened, chan, connected, codeFiles, fetchVars, streamVars>>
    /\ UNCHANGED regexVars
    /\ UNCHANGED exists

\* listForUser settles: nothing catches its failure before the handler's catch (the
\* library's catch rethrows it)
UserReposSettle(o) ==
    /\ kind = "fetch"
    /\ pc = "repos"
    /\ IF o.ok THEN Succeeds(Settled(o), ProfileData(Settled(o))) ELSE Fails(o)
    /\ UNCHANGED <<kind, args, opened, chan, connected, codeFiles, fetchVars, streamVars>>
    /\ UNCHANGED regexVars
    /\ UNCHANGED exists

\* the request names a repository or a user that the host does not have
Missing ==
    /\ kind = "idle"
    /\ exists
    /\ exists' = FALSE
    /\ UNCHANGED <<kind, pc, handlerVars, fetchVars, streamVars>>
    /\ UNCHANGED callVars
    /\ UNCHANGED regexVars

----------------------------------------------------------------------------
(* The stream consumers of the user interface: ChatInterface.handleSubmit,   *)
(* ChatInterface.handleSecurityScan and App.handleScan                       *)

Consumers == {"handleSubmit", "handleSecurityScan", "handleScan"}

\* most lines a consumer reads from one stream
MaxEvents == 3

\* a line of the stream: JSON.parse gives { type, data }, or throws on a garbled line
StatusLine(message) == [type |-> "status", message |-> message]
DataLine(type)      == [type |-> type, message |-> ""]
ErrorLine(message)  == [type |-> "error", message |-> message]
GarbledLine         == [type |-> "garbled", message |-> "Unexpected token"]

\* the lines a consumer may read: each handler's events, the error event included
StreamLines(c) ==
    {StatusLine("Working..."), GarbledLine} \cup {ErrorLine(m) : m \in ErrorMessages \ {""}}
    \cup (CASE c = "handleSubmit"       -> {DataLine("chunk"), DataLine("done")}
            [] c = "handleSecurityScan" -> {DataLine("complete")}
            [] c = "handleScan"         -> {DataLine("tokenInfo"), DataLine("complete")})

\* what the user sees, and the locals of the handler
\*   messages: the chat messages (setMessages)        errorMsg: App's error banner
\*   console: what went to console.error/console.warn status: the status line
\*   shown: App's result panel is filled               local: scanResult / fullContent
UserMessage(content)    == [role |-> "user", failure |-> FALSE, content |-> content]
ModelMessage(content)   == [role |-> "model", failure |-> FALSE, content |-> content]
FailureMessage(prefix, message) ==
    [role |-> "model", failure |-> TRUE, content |-> prefix, message |-> message]

\* the user interface when the request is sent
StartedUI(c) ==
    [messages |-> CASE c = "handleSubmit"       -> <<UserMessage("query")>>
                    [] c = "handleSecurityScan" -> <<UserMessage("Run a security scan on this repository")>>
                    [] c = "handleScan"         -> <<>>,
     errorMsg |-> "", console |-> <<>>, status |-> "", shown |-> FALSE,
     loading |-> TRUE, local |-> <<>>]

\* the body of the inner try for one line: the new interface, and what was thrown
Unthrown(ui)         == [ui |-> ui, thrown |-> None]
ThrownIn(ui, message) == [ui |-> ui, thrown |-> Some(message)]

HandleLine(c, ui, line) ==
    IF line.type = "garbled" THEN ThrownIn(ui, line.message)
    ELSE IF line.type = "error" THEN ThrownIn(ui, line.message)
    ELSE IF line.type = "status" THEN Unthrown([ui EXCEPT !.status = line.message])
    ELSE CASE c = "handleSubmit" ->
                IF line.type = "chunk"
                THEN Unthrown([ui EXCEPT !.local = Append(@, "text")])
                ELSE IF line.type = "done"
                THEN Unthrown([ui EXCEPT !.messages = Append(@, ModelMessage(ui.local))])
                ELSE Unthrown(ui)
           [] c = "handleSecurityScan" ->
                IF line.type = "complete"
                THEN Unthrown([ui EXCEPT !.local = <<"scanResult">>])
                ELSE Unthrown(ui)
           [] c = "handleScan" ->
                IF line.type \in {"tokenInfo", "complete"}
                THEN Unthrown([ui EXCEPT !.shown = TRUE])
                ELSE Unthrown(ui)

\* the catch of the inner try: handleSubmit logs "Parse error:", handleScan warns, and
\* handleSecurityScan does nothing; none of them rethrows
InnerCatch(c, ui, message) ==
    IF c = "handleSecurityScan" THEN ui
    ELSE [ui EXCEPT !.console = Append(@, message)]

\* one line of the for loop
ConsumeLine(c, ui, line) ==
    LET r == HandleLine(c, ui, line)
    IN IF r.thrown = None THEN r.ui ELSE InnerCatch(c, r.ui, r.thrown[1])

\* the finally block
ConsumerFinally(c, ui) == [ui EXCEPT !.loading = FALSE, !.status = ""]

\* the catch of the outer try, then the finally block
OuterCatch(c, ui, message) ==
    ConsumerFinally(c,
        CASE c = "handleSubmit" ->
               [ui EXCEPT !.messages = Append(@, FailureMessage("Error: ", message))]
          [] c = "handleSecurityScan" ->
               [ui EXCEPT !.messages = Append(@, FailureMessage("Security scan failed: ", message))]
          [] c = "handleScan" ->
               [ui EXCEPT !.console = Append(@, message),
                          !.errorMsg = IF message = ""
                                       THEN "Something went wrong. Please try again."
                                       ELSE message,
                          !.shown = FALSE])

\* after the while loop: handleSecurityScan formats the scan result it was given
AfterLoop(c, ui) ==
    ConsumerFinally(c,
        IF c = "handleSecurityScan" /\ ui.local # <<>>
        THEN [ui EXCEPT !.messages = Append(@, ModelMessage(<<"Security Scan Results">>))]
        ELSE ui)

\* the handler sends its request
ConsumerStart(c) ==
    /\ kind = "idle"
    /\ kind' = c
    /\ pc' = "fetching"
    /\ args' = Some([consumer |-> c])
    /\ result' = Some(StartedUI(c))
    /\ consumed' = <<>>
    /\ UNCHANGED <<asked, handlerVars, fetchVars, streamErr, yielded>>
    /\ UNCHANGED regexVars
    /\ UNCHANGED exists

\* fetch resolves: handleScan alone looks at response.ok
ConsumerResponse(status) ==
    /\ kind \in Consumers
    /\ pc = "fetching"
    /\ IF kind = "handleScan" /\ status # 200
       THEN /\ pc' = "settled"
            /\ result' = Some(OuterCatch(kind, result[1], "Scan failed (500)"))
       ELSE /\ pc' = "reading"
            /\ result' = result
    /\ UNCHANGED <<kind, args, consumed, asked, handlerVars, fetchVars, streamErr, yielded>>
    /\ UNCHANGED regexVars
    /\ UNCHANGED exists

\* fetch, or reader.read(), rejects: the outer catch
ConsumerTransportFails(m) ==
    /\ kind \in Consumers
    /\ pc \in {"fetching", "reading"}
    /\ pc' = "settled"
    /\ result' = Some(OuterCatch(kind, result[1], m))
    /\ UNCHANGED <<kind, args, consumed, asked, handlerVars, fetchVars, streamErr, yielded>>
    /\ UNCHANGED regexVars
    /\ UNCHANGED exists

\* the reader delivers one more line
ConsumerReads(line) ==
    /\ kind \in Consumers
    /\ pc = "reading"
    /\ Len(consumed) < MaxEvents
    /\ line \in StreamLines(kind)
    /\ consumed' = Append(consumed, line)
    /\ result' = Some(ConsumeLine(kind, result[1], line))
    /\ UNCHANGED <<kind, pc, args, asked, handlerVars, fetchVars, streamErr, yielded>>
    /\ UNCHANGED regexVars
    /\ UNCHANGED exists

\* the reader is done
ConsumerDone ==
    /\ kind \in Consumers
    /\ pc = "reading"
    /\ pc' = "settled"
    /\ result' = Some(AfterLoop(kind, result[1]))
    /\ UNCHANGED <<kind, args, consumed, asked, handlerVars, fetchVars, streamErr, yielded>>
    /\ UNCHANGED regexVars
    /\ UNCHANGED exists

----------------------------------------------------------------------------
(* The specification *)

Init ==
    /\ kind = "idle"
    /\ pc = "idle"
    /\ response = None
    /\ opened = FALSE
    /\ chan = <<>>
    /\ connected = TRUE
    /\ codeFiles = <<>>
    /\ fVariant = "none"
    /\ fPaths = <<>>
    /\ fWidth = 0
    /\ fI = 0
    /\ fChunk = <<>>
    /\ fResults = <<>>
    /\ fIssued = <<>>
    /\ fOutcome = <<>>
    /\ consumed = <<>>
    /\ streamErr = None
    /\ yielded = <<>>
    /\ args = None
    /\ asked = <<>>
    /\ result = None
    /\ lastIndex = FreshIndex
    /\ scans = <<>>
    /\ exists = TRUE

Next ==
    \/ \E k \in {"scan", "chat"} : RejectMethod(k)
    \/ \E k \in {"scan", "chat"} : RejectFields(k)
    \/ Disconnect
    \/ \E b \in ScanBodies : ScanFilterThrows(b)
    \/ \E b \in ScanBodies : ScanNoCodeFiles(b)
    \/ \E b \in ScanBodies : ScanStart(b)
    \/ \E k \in 1..Len(fChunk) : \E o \in {RemoteAnswer(p) : p \in AllPaths} \cup {TransportError} :
           FetchSettle(k, o)
    \/ FetchNextChunk
    \/ ScanFetched
    \/ \E r \in AIResponses : ScanAIReturn(r)
    \/ \E q \in Queries, t \in Trees : ChatTreeThrows(q, t)
    \/ \E q \in Queries, t \in Trees : ChatExplicit(q, t)
    \/ \E q \in Queries, t \in Trees : ChatAskModel(q, t)
    \/ \E r \in SelectResponses : ChatSelectReturn(r)
    \/ ChatFetched
    \/ ChatCreateReturn
    \/ \E m \in ErrorMessages : ChatCreateFail(m)
    \/ \E c \in Increments : ChatStreamNext(c)
    \/ ChatStreamEnd
    \/ \E m \in ErrorMessages : ChatStreamFail(m)
    \/ GenStart
    \/ GenCreateReturn
    \/ \E c \in Increments : GenNext(c)
    \/ GenEnd
    \/ \E m \in ErrorMessages : GenCreateFail(m)
    \/ \E m \in ErrorMessages : GenStreamFail(m)
    \/ \E l \in PathLists, w \in Widths : BatchStart(l, w)
    \/ BatchReturn
    \/ Missing
    \/ \E r \in FetchRejects : FetchBadRequest(r)
    \/ \E fn \in FetchFns, t \in InputTypes : FetchStart(fn, t)
    \/ \E o \in {Resolved(<<"octo/repo">>), Rejected(404, "Not Found"),
                  Rejected(0, "socket hang up")} : PrimarySettles(o)
    \/ \E t \in {<<>>, SmallTree} : TreeBuilt(t)
    \/ \E o \in SecondaryAnswers : ContributorsSettle(o)
    \/ \E o \in SecondaryAnswers : LanguagesSettle(o)
    \/ \E o \in SecondaryAnswers : UserReposSettle(o)

Spec == Init /\ [][Next]_vars

\* every awaited call settles and the runtime runs every continuation that is ready
FairSpec == Spec /\ WF_vars(Next)

\* the selectors called on their own
SelectorNext ==
    \/ \E fn \in SelectorFns, q \in Queries, t \in SelectorTrees : SelectorRaises(fn, q, t)
    \/ \E fn \in SelectorFns, q \in Queries, t \in SelectorTrees : SelectorExplicit(fn, q, t)
    \/ \E fn \in SelectorFns, q \in Queries, t \in SelectorTrees : SelectorAsksModel(fn, q, t)
    \/ \E r \in SelectorResponses : SelectorModelAnswers(r)

SelectorSpec == Init /\ [][SelectorNext]_vars

\* the context assemblers called on their own
AssemblerNext ==
    \/ \E n \in 0..MaxFiles : \E files \in FileLists(n) \cup DeepLists(n), b \in Budgets :
           BuildContextWithLimitCall(files, b)
    \/ \E n \in 0..MaxFiles : \E files \in FileLists(n) \cup DeepLists(n) :
           BuildContextCall(files)

AssemblerSpec == Init /\ [][AssemblerNext]_vars

\* the pattern scanner called on its own
ScannerNext ==
    \/ \E f \in ScanPool : ScanFileCall(f)
    \/ \E l \in ScanLists : RunPatternScanCall(l)
    \/ \E l \in ScanLists : ScanFilesCall(l)
    \/ \E l \in FindingLists : DeduplicateCall(l)
    \/ \E l \in ScanLists : FilterCodeFilesCall(l)

ScannerSpec == Init /\ [][ScannerNext]_vars

\* the tree functions called on their own
TreeNext ==
    \/ \E fn \in FetchFns : \E c \in Remotes : \E d \in MaxDepths \cup {HANDLER_MAX_DEPTH} :
          BuildFileTreeCall(fn, c, d)
    \/ \E t \in BuiltTrees \cup OtherTrees : PruneFileTreeCall(t)
    \/ \E t \in RenderedTrees : TreeToStringCall(t)

TreeSpec == Init /\ [][TreeNext]_vars

\* the stream consumers on their own
ConsumerNext ==
    \/ \E c \in Consumers : ConsumerStart(c)
    \/ \E s \in {200, 500} : ConsumerResponse(s)
    \/ \E m \in ErrorMessages : ConsumerTransportFails(m)
    \/ \E c \in Consumers : \E line \in StreamLines(c) : ConsumerReads(line)
    \/ ConsumerDone

ConsumerSpec == Init /\ [][ConsumerNext]_vars

----------------------------------------------------------------------------
(* Vocabulary of the properties *)

TypesOf(c) == [k \in 1..Len(c) |-> c[k].type]

\* the request ran a handler to its end
RequestOver == kind \in {"scan", "chat"} /\ pc = "closed"

\* the payloads of the chunk events written, in order
ChunkPayloads(c) ==
    LET chunks == SelectSeq(c, LAMBDA e : e.type = "chunk")
    IN [k \in 1..Len(chunks) |-> chunks[k].data.content]

\* the texts of the increments that carry a non-empty text, in order
NonEmptyTexts(incs) ==
    LET full == SelectSeq(incs, LAMBDA c : c # None /\ c # Some(""))
    IN [k \in 1..Len(full) |-> full[k][1]]

\* the text an increment contributes to the answer
TextOf(inc) == IF inc = None THEN "" ELSE inc[1]

RECURSIVE ConcatText(_)
ConcatText(texts) ==
    IF texts = <<>> THEN "" ELSE texts[1] \o ConcatText(Tail(texts))

\* the remote fetches issued and not yet answered
Outstanding == {j \in 1..Len(fIssued) : fOutcome[j] = None}

\* a fetcher was called and has returned to its caller
FetchReturned == fVariant # "none" /\ pc # "fetch"

\* the remote's answer is a failure: transport error, not found, or no file
Failed(o) == ~o.ok \/ o.type # "file"

\* the input indices whose fetch gave a file with non-empty content
KeptIndices ==
    {k \in 1..Len(fPaths) :
        fOutcome[k] # None /\ ~Failed(fOutcome[k][1]) /\ fOutcome[k][1].content # ""}

\* the number of input indices up to k that fetchFiles keeps
Rank(k) == Cardinality({j \in KeptIndices : j <= k})

----------------------------------------------------------------------------
(* Properties *)

\* C1: every validated scan or chat request writes at most one terminal event
\* (complete, done, error) at any time, and exactly one by the time it is over,
\* on the success path, the no-code-files path and every path through a catch block
C1_ExactlyOneTerminal ==
    /\ Len(Terminals(chan)) <= 1
    /\ RequestOver => Len(Terminals(chan)) = 1

\* C1 witness: a chat request is over after an exception in the middle of the pipeline
C1_Witness ==
    /\ RequestOver
    /\ kind = "chat"
    /\ Len(Events(chan)) > 4
    /\ TypesOf(Terminals(chan)) = <<"error">>

\* C2 (as claimed): nothing is written after the terminal event; what follows a
\* terminal event on the channel is the close
C2_NothingAfterTerminal ==
    \A k \in 1..Len(chan) :
        chan[k].type \in TerminalTypes => (k = Len(chan) \/ chan[k + 1].type = "end")

\* C3: once a handler has opened the event stream, the channel is eventually closed
C3_EventuallyClosed == opened ~> Closed

\* C3 witness: the channel is closed after the streaming loop threw
C3_Witness == kind = "chat" /\ streamErr # None /\ Closed

\* C4 (as claimed): a successful chat is status, files, status, chunk*, status, done
C4_OriginalOrder ==
    (kind = "chat" /\ pc = "closed" /\ "done" \in {chan[k].type : k \in 1..Len(chan)}) =>
        LET t == TypesOf(Events(chan))
            n == Len(t)
        IN /\ n >= 5
           /\ SubSeq(t, 1, 3) = <<"status", "files", "status">>
           /\ \A k \in 4..(n - 2) : t[k] = "chunk"
           /\ t[n - 1] = "status"
           /\ t[n] = "done"

\* C4 (amended): a successful chat is status, files, three status events (progress
\* 30, 60, 80), chunk*, status, done
C4_ChatOrder ==
    (kind = "chat" /\ pc = "closed" /\ "done" \in {chan[k].type : k \in 1..Len(chan)}) =>
        LET e == Events(chan)
            t == TypesOf(e)
            n == Len(t)
        IN /\ n >= 7
           /\ SubSeq(t, 1, 5) = <<"status", "files", "status", "status", "status">>
           /\ <<e[3].data.progress, e[4].data.progress, e[5].data.progress>> = <<30, 60, 80>>
           /\ \A k \in 6..(n - 2) : t[k] = "chunk"
           /\ t[n - 1] = "status"
           /\ t[n] = "done"

\* C4 witness: a successful chat with two chunk events
C4_Witness ==
    /\ kind = "chat"
    /\ pc = "closed"
    /\ Len(ChunkPayloads(chan)) = 2
    /\ chan[Len(chan) - 1].type = "done"

\* C5 (as claimed): when the model stream fails after k chunks, the request ends with
\* one error event after those chunks and no done event, and the consumer of the
\* generator is given nothing but the model's own text as answer content
C5_FailureIsErrorEvent ==
    streamErr # None =>
        /\ kind = "chat" =>
               /\ TypesOf(Terminals(chan)) = <<"error">>
               /\ chan[Len(chan) - 1].type = "error"
               /\ ChunkPayloads(chan) = NonEmptyTexts(consumed)
        /\ kind = "gen" => yielded = NonEmptyTexts(consumed)

C7_SilentAfterDisconnect ==
    [][~connected => Events(chan') = Events(chan)]_vars

\* C8: the remote fetches in flight never exceed the width, and every fetch that is
\* in flight belongs to the current chunk (all earlier chunks have settled)
C8_InFlightBounded ==
    /\ Cardinality(Outstanding) <= fWidth
    /\ \A j \in Outstanding : j > fI

\* C8 witness: the scan's second chunk is in flight
C8_Witness == kind = "scan" /\ pc = "fetch" /\ fI = BATCH_SIZE /\ Outstanding # {}

\* C9 (as claimed): every fetcher returns one record per input path, at its index
C9_OneRecordPerPath ==
    FetchReturned =>
        /\ Len(fResults) = Len(fPaths)
        /\ \A k \in 1..Len(fPaths) : fResults[k].path = fPaths[k]

\* C9 (amended): fetchFilesBatch and fetchFileContents return one record per input
\* path at its index; fetchFiles returns, in input order, the records of the paths
\* fetched as files with non-empty content and no record for any other path
C9_RecordsInInputOrder ==
    FetchReturned =>
        IF fVariant = "files"
        THEN /\ Len(fResults) = Cardinality(KeptIndices)
             /\ \A k \in KeptIndices : fResults[Rank(k)].path = fPaths[k]
        ELSE /\ Len(fResults) = Len(fPaths)
             /\ \A k \in 1..Len(fPaths) : fResults[k].path = fPaths[k]

\* C9 witness: fetchFiles returned fewer records than it was given paths
C9_Witness ==
    /\ FetchReturned
    /\ fVariant = "files"
    /\ Len(fResults) > 1
    /\ Len(fResults) < Len(fPaths)

\* C10 (as claimed): a failed fetch leaves a record with absent content and an error
\* reason, and every other path has the record of its own file
C10_FailureRecorded ==
    FetchReturned =>
        /\ Len(fResults) = Len(fPaths)
        /\ \A k \in 1..Len(fPaths) :
               IF Failed(fOutcome[k][1])
               THEN fResults[k].content = None /\ "error" \in DOMAIN fResults[k]
               ELSE fResults[k].content = Some(RemoteAnswer(fPaths[k]).content)

\* C10 (amended): a failed fetch never raises out of the batch (no fetch failure puts
\* a terminal event on the channel); in fetchFilesBatch and fetchFileContents the
\* path's record has absent content and an error reason, in fetchFiles the path has
\* no record; every other path's record carries its own file, whatever else failed
C10_FailureIsolated ==
    /\ (kind \in {"scan", "chat"} /\ pc \in {"fetch", "aiscan", "create"}) =>
           Terminals(chan) = <<>>
    /\ FetchReturned =>
           IF fVariant = "files"
           THEN /\ Len(fResults) = Cardinality(KeptIndices)
                /\ \A k \in KeptIndices :
                       fResults[Rank(k)] =
                           [path |-> fPaths[k],
                            content |-> Some(RemoteAnswer(fPaths[k]).content)]
           ELSE /\ Len(fResults) = Len(fPaths)
                /\ \A k \in 1..Len(fPaths) :
                       /\ fResults[k].path = fPaths[k]
                       /\ IF Failed(fOutcome[k][1])
                          THEN /\ fResults[k].content = None
                               /\ "error" \in DOMAIN fResults[k]
                          ELSE fResults[k].content = Some(RemoteAnswer(fPaths[k]).content)

\* C10 witness: fetchFilesBatch returned after a failure in its first chunk, with a
\* file fetched in the same chunk and one in a later chunk
C10_Witness ==
    /\ kind = "batch"
    /\ pc = "returned"
    /\ fWidth = 2
    /\ Len(fPaths) >= 3
    /\ Failed(fOutcome[1][1])
    /\ ~Failed(fOutcome[2][1])
    /\ ~Failed(fOutcome[3][1])

\* the files event of a chat request, if one was written
FilesEvents(c) == SelectSeq(c, LAMBDA e : e.type = "files")

\* a step of the chat other than a file fetch failed: the selection raised (no files
\* event), the selection gave no list (the fetcher cannot iterate it), the completion
\* call was rejected (the error follows the status written before it), or the model
\* stream threw
OtherChatStepFailed ==
    \/ FilesEvents(chan) = <<>>
    \/ FilesEvents(chan)[1].data.files.kind = "string"
    \/ \E k \in 2..Len(chan) :
           /\ chan[k].type = "error"
           /\ chan[k - 1] = Status(<<"Generating response...">>, 60)
    \/ streamErr # None

\* C11: file fetches that fail, any number of them, put no terminal event on the
\* channel; a scan that fetched ends with complete whatever the fetches gave, and a
\* chat ends with done unless a step other than a file fetch failed
C11_FetchFailuresTolerated ==
    /\ (kind \in {"scan", "chat"} /\ pc \in {"fetch", "aiscan", "create"}) =>
           Terminals(chan) = <<>>
    /\ (kind = "scan" /\ pc = "closed" /\ fVariant = "files") =>
           TypesOf(Terminals(chan)) = <<"complete">>
    /\ (kind = "chat" /\ pc = "closed" /\ ~OtherChatStepFailed) =>
           TypesOf(Terminals(chan)) = <<"done">>

\* C11 witness: a chat ended with done although a file it selected is absent from the
\* repository, so that its fetch failed
C11_Witness ==
    /\ kind = "chat"
    /\ pc = "closed"
    /\ TypesOf(Terminals(chan)) = <<"done">>
    /\ \E j \in 1..Len(FilesEvents(chan)[1].data.files.items) :
           Failed(RemoteAnswer(FilesEvents(chan)[1].data.files.items[j]))

\* a selector was called and has come to its end
SelectorDone == kind = "select" /\ result # None

\* C12 (as claimed): no call of a selector raises; whatever the query, the tree (an
\* absent one too) and the model's answer, the call returns a result
C12_SelectorNeverRaises ==
    SelectorDone => ~result[1].raised

\* the names of the rendering the called selector finds in the query; none without a tree
NamesInQuery ==
    IF TreeThrows(args[1].tree)
    THEN <<>>
    ELSE MentionedBy(args[1].fn, args[1].query, args[1].tree)

\* C13: when a name of the rendering occurs in the query, the selector has returned
\* without a call to the language model; a call to the model was made only for a
\* query with no such name, and then only one
C13_ExplicitShortCircuits ==
    kind = "select" =>
        /\ NamesInQuery # <<>> => (asked = <<>> /\ result # None /\ ~result[1].raised)
        /\ asked # <<>> => (Len(asked) = 1 /\ NamesInQuery = <<>>)

\* C13 witness: analyzeFileSelection returned for a query that names a file of the
\* rendering, and the model was not called
C13_Witness ==
    /\ SelectorDone
    /\ args[1].fn = "analyzeFileSelection"
    /\ NamesInQuery # <<>>
    /\ asked = <<>>
    /\ ~result[1].raised

\* the selector asked the language model and the call has settled
ModelAnswered == SelectorDone /\ asked # <<>> /\ asked[1] # None

\* the answer the selector got from the language model
ModelAnswer == asked[1][1]

\* the value the selector returned
Selection == result[1].value

\* the names in a files value, as a set
FileSet(files) == {files.items[k] : k \in 1..Len(files.items)}

\* C14 (as claimed): when the model call fails or answers with text that is no JSON,
\* the selector raises nothing and returns tier "fallback" with a non-empty default
\* list that holds a readme and a manifest
C14_FailureGivesFallback ==
    (ModelAnswered /\ ModelAnswer.kind \in {"error", "text"}) =>
        /\ ~result[1].raised
        /\ "tier" \in DOMAIN Selection
        /\ Selection.tier = "fallback"
        /\ Selection.files.kind = "array"
        /\ {"README.md", "package.json"} \subseteq FileSet(Selection.files)

\* what the called selector returns when its model call is rejected: its fallback
FallbackOf(fn) == FromModelBy(fn, SelectResponse("error", Undefined, None))

\* C15 (as claimed): a JSON answer of the model without a files field or without a
\* reason field gives the selector's fallback result, as a failed model call does
C15_MissingFieldGivesFallback ==
    (/\ ModelAnswered
     /\ ModelAnswer.kind = "json"
     /\ (ModelAnswer.files.kind = "undefined" \/ ModelAnswer.reason = None)) =>
        Selection = FallbackOf(args[1].fn)

\* the names of the nodes of a tree, depth first, a node before its children
RECURSIVE PreOrderNames(_)
PreOrderNames(tree) ==
    IF tree = <<>>
    THEN <<>>
    ELSE <<tree[1].name>>
           \o (IF "children" \in DOMAIN tree[1] THEN PreOrderNames(tree[1].children) ELSE <<>>)
           \o PreOrderNames(Tail(tree))

\* the names of a tree that occur in a query, letter case aside, in rendering order
NamesOccurring(tree, query) ==
    LET hits == SelectSeq(PreOrderNames(tree),
                          LAMBDA name : includes(toLowerCase(query), toLowerCase(name)))
    IN [k \in 1..Len(hits) |-> StringOf(hits[k])]

\* C16 (as claimed): called with the rendering of a tree some of whose names occur in
\* the query, a selector returns those names, in rendering order, at most the first
\* 15, with tier "explicit"; "explain index.js" with a line ending in index.js gives
\* files = ["index.js"]
C16_ExplicitNames ==
    /\ \A t \in SourceTrees :
           (/\ kind = "select"
            /\ args[1].tree = Some(treeToString(t, <<>>))
            /\ NamesOccurring(t, args[1].query) # <<>>) =>
               /\ result # None
               /\ ~result[1].raised
               /\ Selection.files = Arr(Slice(NamesOccurring(t, args[1].query), 0, 15))
               /\ "tier" \in DOMAIN Selection
               /\ Selection.tier = "explicit"
    /\ (/\ kind = "select"
        /\ StringOf(args[1].query) = "explain index.js"
        /\ args[1].tree = Some(treeToString(FlatTree, <<>>))) =>
           /\ result # None
           /\ Selection.files = Arr(<<"index.js">>)
           /\ "tier" \in DOMAIN Selection
           /\ Selection.tier = "explicit"

\* C17: whatever a selector returns, from its explicit tier, from an answer of the
\* model or as its fallback, files has at most 15 entries
C17_AtMostFifteen ==
    (SelectorDone /\ ~result[1].raised) => LengthOf(Selection.files) <= 15

\* C17 witness: the model listed more than 15 files and the selector returned 15
C17_Witness ==
    /\ ModelAnswered
    /\ ModelAnswer.files.kind = "array"
    /\ LengthOf(ModelAnswer.files) > 15
    /\ LengthOf(Selection.files) = 15

\* buildContextWithLimit was called and has returned
LimitDone == kind = "context" /\ args[1].fn = "buildContextWithLimit"

\* what an assembler returned
Assembly == result[1].value

\* the input files that have content, in input order
WithContent == SelectSeq(args[1].files, HasContent)

\* C18: includedFiles of buildContextWithLimit lists, in input order, the first so
\* many of the input files that have content, and no entry but the last is truncated
C18_NeverReorders ==
    LimitDone =>
        /\ Len(Assembly.includedFiles) <= Len(WithContent)
        /\ \A k \in 1..Len(Assembly.includedFiles) :
               Assembly.includedFiles[k].path = WithContent[k].path
        /\ \A k \in 1..(Len(Assembly.includedFiles) - 1) :
               ~Assembly.includedFiles[k].truncated

\* C18 witness: after a file without content, one file was included in full and the
\* next one truncated
C18_Witness ==
    /\ LimitDone
    /\ Len(args[1].files) = 3
    /\ ~HasContent(args[1].files[1])
    /\ Len(Assembly.includedFiles) = 2
    /\ Assembly.includedFiles[2].truncated

\* an assembler was called and has returned
AssemblerDone == kind = "context" /\ result # None

\* the context an assembler returned, as pieces
ContextOf ==
    IF args[1].fn = "buildContextWithLimit" THEN Assembly.context ELSE Assembly

\* the cost of a file's block, in characters at CHARS_PER_TOKEN characters a token:
\* the library counts whole tokens for each block, the handler counts characters
BlockCost(file) ==
    LET blockChars == HeaderLength(file.path) + file.content[1].len + 1
    IN IF args[1].fn = "buildContextWithLimit"
       THEN CHARS_PER_TOKEN * estimateTokens(blockChars)
       ELSE blockChars

\* the running total before the k-th file with content, were all before it included
RECURSIVE RunningTotal(_)
RunningTotal(k) ==
    IF k <= 1 THEN 0 ELSE RunningTotal(k - 1) + BlockCost(WithContent[k - 1])

BudgetChars == CHARS_PER_TOKEN * args[1].maxTokens

\* the k-th file with content is the first whose block exceeds the remaining budget
FirstOverBudget(k) ==
    /\ RunningTotal(k) + BlockCost(WithContent[k]) > BudgetChars
    /\ \A j \in 1..(k - 1) : RunningTotal(j) + BlockCost(WithContent[j]) <= BudgetChars

\* budget - running total - 100 tokens exceeds 500 tokens
AllowsPrefix(k) ==
    BudgetChars - RunningTotal(k) - 100 * CHARS_PER_TOKEN > 500 * CHARS_PER_TOKEN

InContext(path) == \E j \in 1..Len(ContextOf) : ContextOf[j].path = path

\* the k-th file with content is in the context whole, as the k-th piece
IncludedInFull(k) ==
    /\ k <= Len(ContextOf)
    /\ ContextOf[k] = Piece(WithContent[k].path, WithContent[k].content[1].len, "\n")
    /\ args[1].fn = "buildContextWithLimit" =>
           /\ k <= Len(Assembly.includedFiles)
           /\ Assembly.includedFiles[k] = [path |-> WithContent[k].path, truncated |-> FALSE]

\* the k-th file with content is in the context as a prefix with a truncation mark
IncludedAsPrefix(k) ==
    /\ k = Len(ContextOf)
    /\ ContextOf[k].path = WithContent[k].path
    /\ ContextOf[k].taken < WithContent[k].content[1].len
    /\ ContextOf[k].tail # "\n"
    /\ args[1].fn = "buildContextWithLimit" =>
           /\ Assembly.includedFiles[Len(Assembly.includedFiles)]
                  = [path |-> WithContent[k].path, truncated |-> TRUE]
           /\ Assembly.skippedFiles = <<>>

\* the k-th file with content is left out of the context
Skipped(k) ==
    /\ ~InContext(WithContent[k].path)
    /\ args[1].fn = "buildContextWithLimit" =>
           /\ \A j \in 1..Len(Assembly.includedFiles) :
                  Assembly.includedFiles[j].path # WithContent[k].path
           /\ \E j \in 1..Len(Assembly.skippedFiles) :
                  Assembly.skippedFiles[j] = WithContent[k].path

\* C19 (as claimed): in both assemblers every file before the first over-budget file
\* is included in full, and that file is included as a truncated prefix when budget -
\* running total - 100 tokens exceeds 500 tokens, and is skipped otherwise
C19_BufferAndThreshold ==
    AssemblerDone =>
        \A k \in 1..Len(WithContent) :
            /\ (\A j \in 1..k : RunningTotal(j) + BlockCost(WithContent[j]) <= BudgetChars) =>
                   IncludedInFull(k)
            /\ FirstOverBudget(k) =>
                   IF AllowsPrefix(k) THEN IncludedAsPrefix(k) ELSE Skipped(k)

IncludedPaths ==
    {Assembly.includedFiles[j].path : j \in 1..Len(Assembly.includedFiles)}

SkippedPaths == {Assembly.skippedFiles[j] : j \in 1..Len(Assembly.skippedFiles)}

\* C20 (as claimed): when buildContextWithLimit does not truncate the first
\* over-budget file, that file and every later file with content are in skippedFiles,
\* so that every input file with content is in includedFiles or in skippedFiles
C20_SkippedComplete ==
    LimitDone =>
        \A k \in 1..Len(WithContent) :
            (FirstOverBudget(k) /\ ~AllowsPrefix(k)) =>
                /\ \A j \in k..Len(WithContent) : WithContent[j].path \in SkippedPaths
                /\ \A j \in 1..Len(WithContent) :
                       WithContent[j].path \in IncludedPaths \cup SkippedPaths

----------------------------------------------------------------------------
(* The pattern scanner: C21 to C27 *)

RECURSIVE Flatten(_)
Flatten(seqs) == IF seqs = <<>> THEN <<>> ELSE seqs[1] \o Flatten(Tail(seqs))

\* a call of runPatternScan has returned
PatternScanDone == kind = "runPatternScan" /\ result # None

\* what runPatternScan finds in one file when nothing was scanned before
AloneAndFresh(file) == runPatternScan(<<file>>, FreshIndex["handler"]).findings

\* C21: scanning the same (path, content) twice, with any other files scanned in
\* between, yields identical finding lists: no regular expression's scan position
\* survives from one scanFile or runPatternScan invocation, or from one file, into the
\* next
C21_NoScanStateSurvives ==
    /\ lastIndex = FreshIndex
    /\ \A i, j \in 1..Len(scans) :
           scans[i].file = scans[j].file => scans[i].findings = scans[j].findings
    /\ PatternScanDone =>
           result[1].value = Flatten([i \in 1..Len(args[1]) |-> AloneAndFresh(args[1][i])])

\* a file with two matches of one rule is scanned again after a file with a match
C21_Witness ==
    /\ Len(scans) = 3
    /\ scans[1].file = scans[3].file
    /\ scans[2].file # scans[1].file
    /\ Len(scans[1].findings) >= 2
    /\ Len(scans[2].findings) >= 1
    /\ scans[3].findings = scans[1].findings

\* the start offsets of a rule's matches in a text, in order
RECURSIVE MatchOffsets(_, _, _)
MatchOffsets(pattern, text, from) ==
    LET r == exec(pattern, text, from)
    IN IF r.match = None
       THEN <<>>
       ELSE <<r.match[1]>> \o MatchOffsets(pattern, text, r.lastIndex)

LineBreaksBefore(text, offset) == Cardinality({k \in 1..offset : text[k] = LF})

\* one plus the line breaks before each match, rule by rule in the table's order
ExpectedLines(table, text) ==
    Flatten([k \in 1..Len(SECURITY_PATTERNS(table)) |->
                LET offsets == MatchOffsets(SECURITY_PATTERNS(table)[k].pattern, text, 0)
                IN [j \in 1..Len(offsets) |-> 1 + LineBreaksBefore(text, offsets[j])]])

LinesOf(findings) == [k \in 1..Len(findings) |-> findings[k].line]

\* the file goes through the rules of the table
IsScanned(table, file) ==
    /\ ~NoContent(file.content)
    /\ table = "library" => extensionOf(file.path) \in LIBRARY_CODE_EXTENSIONS

ExpectedLinesOf(table, file) ==
    IF IsScanned(table, file) THEN ExpectedLines(table, file.content[1]) ELSE <<>>

\* C22: for every match the reported line is 1 plus the number of line breaks before
\* the match's start offset: on the first line, on a last line without a trailing line
\* break, and for a match that starts right after a line break
C22_LineOfMatch ==
    /\ \A i \in 1..Len(scans) :
           LinesOf(scans[i].findings) = ExpectedLinesOf("library", scans[i].file)
    /\ PatternScanDone =>
           LinesOf(result[1].value)
               = Flatten([i \in 1..Len(args[1]) |-> ExpectedLinesOf("handler", args[1][i])])

\* a match right after a line break, on a last line without a line break, reported on
\* line 2; and three matches reported on lines 1, 3 and 3
C22_Witness ==
    /\ Len(scans) = 2
    /\ scans[1].file = ScanFile(N_INDEX, Some(TwoLines))
    /\ LinesOf(scans[1].findings) = <<2>>
    /\ scans[2].file = ScanFile(N_INDEX, Some(ThreeEvals))
    /\ LinesOf(scans[2].findings) = <<1, 3, 3>>

\* the complete events written on the channel
CompleteEvents(c) == SelectSeq(c, LAMBDA e : e.type = "complete")

\* the identity of a finding
Identity(f) == <<f.file, f.line, f.title>>

\* what the model answered to the scan's call
ScanAnswer == asked[Len(asked)][1]

\* the scan has written its complete event
ScanCompleted == kind = "scan" /\ Len(CompleteEvents(chan)) > 0

Reported == CompleteEvents(chan)[1].data.findings

\* C23: the merged list places all pattern findings before all model findings and
\* deduplication keeps the first occurrence of each (file, line, title), so on a tie
\* the retained finding is the one with source pattern
C23_PatternWinsTie ==
    ScanCompleted =>
        /\ \A i, j \in 1..Len(Reported) :
               i < j => ~(Reported[i].source = "ai" /\ Reported[j].source = "pattern")
        /\ \A i, j \in 1..Len(Reported) :
               i # j => Identity(Reported[i]) # Identity(Reported[j])
        /\ \A k \in 1..Len(patternFindings) :
               \E i \in 1..Len(Reported) : Reported[i] = patternFindings[k]
        /\ \A i \in 1..Len(Reported) :
               (\E k \in 1..Len(patternFindings) :
                    Identity(patternFindings[k]) = Identity(Reported[i]))
                   => Reported[i].source = "pattern"

\* the model reports the eval on line 1 of index.js that the rules found too
C23_Witness ==
    /\ ScanCompleted
    /\ ScanAnswer = AIResponse("json", Arr(<<M_DOUBT, M_EVAL>>))
    /\ \E k \in 1..Len(patternFindings) : Identity(patternFindings[k]) = Identity(M_EVAL)
    /\ \E i \in 1..Len(Reported) :
           Identity(Reported[i]) = Identity(M_EVAL) /\ Reported[i].source = "pattern"

\* a call of deduplicateFindings or scanFiles has returned
DedupDone == kind \in {"deduplicateFindings", "scanFiles"} /\ result # None

\* C24: deduplication is idempotent: deduplicateFindings, or the deduplication step of
\* scanFiles, applied to its own output changes nothing
C24_DedupIdempotent ==
    DedupDone =>
        IF kind = "deduplicateFindings"
        THEN deduplicateFindings(result[1].value) = result[1].value
        ELSE SeenFilter("library", result[1].value, {}) = result[1].value

\* a list in which one finding occurs three times came back with two findings less
C24_Witness ==
    /\ DedupDone
    /\ kind = "deduplicateFindings"
    /\ Len(args[1]) = 3
    /\ Len(result[1].value) = 1

\* the deduplicated list of everything the scan found
AllFindings ==
    deduplicateFindings(patternFindings \o runAIScan(ScanAnswer))

Kept(f) == f.severity \in {"critical", "high"} \/ f.confidence = "high"

ModelScanFailed == ScanAnswer.kind \in {"rejected", "text"}

\* C26: if the model-based scan's call fails or returns non-JSON, the model findings
\* are empty and the scan still ends with a complete event that carries every pattern
\* finding passing the final filter; no error event is written
C26_ModelFailureTolerated ==
    (kind = "scan" /\ pc = "closed" /\ asked # <<>> /\ ModelScanFailed) =>
        /\ TypesOf(Terminals(chan)) = <<"complete">>
        /\ \A i \in 1..Len(Reported) : Reported[i].source = "pattern"
        /\ {Reported[i] : i \in 1..Len(Reported)}
               = {patternFindings[k] : k \in {j \in 1..Len(patternFindings) :
                                                  Kept(patternFindings[j])}}

\* the model call failed after the rules had found something
C26_Witness ==
    /\ kind = "scan"
    /\ pc = "closed"
    /\ asked # <<>>
    /\ ModelScanFailed
    /\ Len(patternFindings) >= 2
    /\ Len(Reported) >= 2

\* C27 (as claimed): the scan handler's code-file filter and the library's
\* filterCodeFiles and scanFile extension check are one shared predicate: they accept
\* exactly the same paths, and no file outside the allow-list is ever pattern-scanned
C27_SharedPredicate ==
    /\ \A i \in 1..Len(scans) :
           (kind = "scanFile" /\ scans[i].findings # <<>>) =>
               /\ InAllowList("library", scans[i].file.path)
               /\ InAllowList("handler", scans[i].file.path)
    /\ (kind = "filterCodeFiles" /\ result # None) =>
           result[1].value
               = SelectSeq(args[1], LAMBDA file : InAllowList("handler", file.path))

----------------------------------------------------------------------------
(* Repository and profile fetching: C28, C29 *)

\* a handler is serving a request that names a repository or a user that does not exist
ServesMissing ==
    /\ ~exists
    /\ kind \in {"fetch", "scan", "chat"}
    /\ (kind = "fetch" /\ args # None) => args[1].fn = "handler"

SuccessTerminals(c) == SelectSeq(c, LAMBDA e : e.type \in {"complete", "done"})

\* C28 (as claimed): when the repository (or user) a request names does not exist, the
\* failure is a plain failure response with a not-found status and message, before any
\* stream event: no such request opens the event stream or ends with a success
\* terminal event
C28_MissingIsPlainFailure ==
    ServesMissing =>
        /\ ~opened
        /\ Events(chan) = <<>>
        /\ SuccessTerminals(chan) = <<>>
        /\ (kind = "fetch" /\ pc = "responded" /\ asked # <<>>
                /\ asked[1] = Some(Rejected(404, "Not Found"))) =>
               response = Some([status |-> 404, error |-> "Not Found"])

\* a fetch has ended whose primary call (repos.get, users.getByUsername) resolved
FetchedPrimary ==
    kind = "fetch" /\ pc = "responded" /\ asked # <<>> /\ asked[1][1].ok

FetchSucceeded ==
    IF args[1].fn = "handler"
    THEN response # None /\ response[1].status = 200
    ELSE result # None /\ ~result[1].raised

FetchedData == IF args[1].fn = "handler" THEN response[1].data ELSE result[1].value

\* C29 (as claimed): in repository and profile fetching, a failure of a non-primary
\* operation (list contributors, list languages, list a user's repositories) yields an
\* empty or omitted field in an otherwise successful response, never a failed request
C29_SecondaryFailuresTolerated ==
    FetchedPrimary =>
        /\ FetchSucceeded
        /\ (args[1].type = "repo" /\ ~asked[Len(asked) - 1][1].ok) =>
               FetchedData.contributors = <<>>
        /\ (args[1].type = "repo" /\ ~asked[Len(asked)][1].ok) =>
               FetchedData.languages = <<>>
        /\ (args[1].type = "profile" /\ ~asked[2][1].ok) =>
               FetchedData.repos = <<>>

----------------------------------------------------------------------------
(* The file tree: C30 *)

\* the names of the skip set
SkipSet ==
    {"node_modules", ".git", "dist", "build", ".next", "__pycache__", "vendor", ".cache",
     "coverage"}

\* the nodes of a tree at every depth, a node before its children
RECURSIVE NodesOf(_)
NodesOf(tree) ==
    IF tree = <<>> THEN <<>>
    ELSE <<tree[1]>>
           \o (IF "children" \in DOMAIN tree[1] THEN NodesOf(tree[1].children) ELSE <<>>)
           \o NodesOf(Tail(tree))

NoSkippedName(tree) ==
    \A k \in 1..Len(NodesOf(tree)) : StringOf(NodesOf(tree)[k].name) \notin SkipSet

\* the tree a call of buildFileTree or pruneFileTree returned
TreeReturned ==
    IF kind = "buildFileTree" THEN result[1].value.tree ELSE result[1].value

\* C30: no node of a tree that buildFileTree produced or pruneFileTree returned, file
\* or directory, at any depth, has a name of the skip set
C30_NoSkippedNames ==
    kind \in {"buildFileTree", "pruneFileTree"} => NoSkippedName(TreeReturned)

----------------------------------------------------------------------------
(* The file tree: C31, C32 *)

\* the nodes of a tree with the depth they lie at, the root entries at depth
RECURSIVE NodesAt(_, _)
NodesAt(tree, depth) ==
    IF tree = <<>> THEN <<>>
    ELSE <<[node |-> tree[1], depth |-> depth]>>
           \o (IF "children" \in DOMAIN tree[1]
               THEN NodesAt(tree[1].children, depth + 1) ELSE <<>>)
           \o NodesAt(Tail(tree), depth)

BuildReturned == kind = "buildFileTree" /\ result # None
\* the cap the call was made under
CapOfCall == IF args[1].fn = "handler" THEN HANDLER_MAX_DEPTH ELSE args[1].maxDepth
TreeListed == {result[1].value.listed[k] : k \in 1..Len(result[1].value.listed)}

RECURSIVE FailedPaths(_)
RECURSIVE FailedIn(_)
FailedIn(items) ==
    IF items = <<>> THEN {}
    ELSE (IF items[1].type = "dir"
          THEN (IF items[1].contents.ok THEN {} ELSE {items[1].path})
                   \cup FailedPaths(items[1].contents)
          ELSE {})
         \cup FailedIn(Tail(items))
FailedPaths(contents) ==
    IF ~contents.ok THEN {}
    ELSE IF contents.array THEN FailedIn(contents.data)
    ELSE FailedIn(<<contents.object>>)

\* the same repository with every failing listing of a subdirectory answered as empty
RECURSIVE Healed(_)
RECURSIVE HealedItems(_)
HealedItems(items) ==
    IF items = <<>> THEN <<>>
    ELSE <<IF items[1].type = "dir"
           THEN [items[1] EXCEPT !.contents =
                    IF items[1].contents.ok THEN Healed(items[1].contents) ELSE Listing(<<>>)]
           ELSE items[1]>> \o HealedItems(Tail(items))
Healed(contents) ==
    IF ~contents.ok THEN contents
    ELSE IF contents.array THEN Listing(HealedItems(contents.data))
    ELSE Single(HealedItems(<<contents.object>>)[1])

\* the directories of the returned tree whose listing was asked and failed
FailedNodes ==
    {k \in 1..Len(NodesAt(TreeReturned, 0)) :
        /\ NodesAt(TreeReturned, 0)[k].node.path \in FailedPaths(args[1].contents)
        /\ NodesAt(TreeReturned, 0)[k].node.path \in TreeListed}

\* C32: a subdirectory whose listing fails stays in the tree with an empty children
\* list, the rest of the tree is what it is when that listing answers with nothing,
\* and buildFileTree returns
C32_SubtreeFailureTolerated ==
    BuildReturned =>
        /\ ~result[1].raised
        /\ \A k \in FailedNodes :
               /\ "children" \in DOMAIN NodesAt(TreeReturned, 0)[k].node
               /\ NodesAt(TreeReturned, 0)[k].node.children = <<>>
        /\ \A p \in FailedPaths(args[1].contents) :
               p \in TreeListed => \E k \in FailedNodes : NodesAt(TreeReturned, 0)[k].node.path = p
        /\ TreeReturned = buildFileTree(args[1].fn, Healed(args[1].contents), <<>>, 0,
                                        args[1].maxDepth).tree

\* C32 witness: the listing of lib failed and its siblings are in the tree
C32_Witness ==
    /\ BuildReturned
    /\ FailedNodes # {}
    /\ Len(TreeReturned) > 1
    /\ \E k \in 1..Len(TreeReturned) :
           "children" \in DOMAIN TreeReturned[k] /\ TreeReturned[k].children # <<>>

----------------------------------------------------------------------------
(* The rendering of a tree: C33 *)

RenderReturned == kind = "treeToString" /\ result # None

\* no name of the tree holds a line terminator
NoLineBreak(tree) ==
    \A k \in 1..Len(PreOrderNames(tree)) :
        \A c \in 1..Len(PreOrderNames(tree)[k]) : PreOrderNames(tree)[k][c] \notin {LF, CR}

\* the names the selector's pattern takes from the lines of a text, line by line; the
\* text ends with a line feed, so the last line is empty
NamesParsed(text) ==
    LET lines == split(text)
    IN [k \in 1..(Len(lines) - 1) |-> matchName(lines[k])]

\* C33: the lines of treeToString(tree), parsed with the selector's pattern, give the
\* names of the tree depth first, a node before its children, when no name holds a
\* line break; the text is the same whenever the tree is rendered
C33_NamesRoundTrip ==
    (RenderReturned /\ NoLineBreak(args[1].tree)) =>
        /\ NamesParsed(result[1].value)
              = [k \in 1..Len(PreOrderNames(args[1].tree)) |-> Some(PreOrderNames(args[1].tree)[k])]
        /\ result[1].value = treeToString(args[1].tree, <<>>)

\* C33 witness: a rendered tree with a name that holds a connector of its own, below a
\* directory
C33_Witness ==
    /\ RenderReturned
    /\ NoLineBreak(args[1].tree)
    /\ \E k \in 1..Len(PreOrderNames(args[1].tree)) : PreOrderNames(args[1].tree)[k] = N_CONNECTOR
    /\ Len(PreOrderNames(args[1].tree)) > Len(args[1].tree)

----------------------------------------------------------------------------
(* The context assemblers: C34 *)

\* C34: the text an assembler returns is within the budget it was given
C34_ContextWithinBudget ==
    AssemblerDone => estimateTokens(ContextLength(ContextOf)) <= args[1].maxTokens

----------------------------------------------------------------------------
(* Progress: C35 *)

StatusEvents(c) == SelectSeq(c, LAMBDA e : e.type = "status")

\* the progress values of the status events written so far, in order
ProgressValues == [k \in 1..Len(StatusEvents(chan)) |-> StatusEvents(chan)[k].data.progress]

\* the heads of the iterations of fetchFiles over n paths: i = 0, 5, 10, ...
LoopHeads(n) == {i \in 0..(n - 1) : i % BATCH_SIZE = 0}

\* the progress values of fetchFiles lie between the status before the loop (10) and
\* the one after it (40) and do not decrease, for 1 to 20 code files
FetchProgressInOrder ==
    \A n \in 1..20 : \A i \in LoopHeads(n) :
        /\ FetchProgress(i, n) \in 10..40
        /\ \A j \in LoopHeads(n) : j < i => FetchProgress(j, n) <= FetchProgress(i, n)

\* C35: the progress values of the status events of a request are integers of 0..100
\* that never decrease, for the chat and for the scan with any number of code files
C35_ProgressMonotone ==
    /\ \A k \in 1..Len(ProgressValues) :
           /\ ProgressValues[k] \in 0..100
           /\ k > 1 => ProgressValues[k - 1] <= ProgressValues[k]
    /\ FetchProgressInOrder

\* C35 witness: a scan that went twice through the fetch loop and reached 100
C35_Witness ==
    /\ kind = "scan"
    /\ Len(ProgressValues) >= 7
    /\ ProgressValues[Len(ProgressValues)] = 100
    /\ \E k \in 1..Len(ProgressValues) : ProgressValues[k] \in 11..39

----------------------------------------------------------------------------
(* The close of the channel: C36 *)

\* C36: res.end() is called at most once in a request
C36_ClosedOnce == Len(Ends(chan)) <= 1

----------------------------------------------------------------------------
(* The explicit tier and the paths of the tree: C37 *)

\* the full paths of the file nodes of a tree, as strings
FilePathsOf(tree) ==
    {StringOf(getFilePaths(tree, <<>>)[k]) : k \in 1..Len(getFilePaths(tree, <<>>))}

NoDuplicates(list) == \A i, j \in 1..Len(list) : list[i] = list[j] => i = j

\* C37: what the explicit tier returns are full paths of file nodes of the tree the
\* rendering was made from, each once
C37_ExplicitEntriesArePaths ==
    \A t \in SourceTrees :
        (/\ SelectorDone
         /\ ~result[1].raised
         /\ args[1].tree = Some(treeToString(t, <<>>))
         /\ NamesOccurring(t, args[1].query) # <<>>) =>
            /\ \A k \in 1..Len(Selection.files.items) : Selection.files.items[k] \in FilePathsOf(t)
            /\ NoDuplicates(Selection.files.items)

----------------------------------------------------------------------------
(* C38: error events at the stream consumers *)

\* the error events the consumer has read
ErrorEventsRead == {consumed[i].message : i \in {j \in 1..Len(consumed) : consumed[j].type = "error"}}

\* a failure message carrying the message is before the user
FailureShown(ui, message) ==
    \/ \E i \in 1..Len(ui.messages) :
          ui.messages[i].failure /\ ui.messages[i].message = message
    \/ ui.errorMsg = message

\* C38: once a stream consumer has read an error event and has finished, the user has
\* been shown a failure message that carries the event's message
C38_ErrorEventShown ==
    (kind \in Consumers /\ pc = "settled") =>
        \A m \in ErrorEventsRead : FailureShown(result[1], m)

----------------------------------------------------------------------------
(* C39: fetchFilesBatch terminates *)

\* ceil(n / width), for a width of at least 1
CeilDiv(n, width) == (n + width - 1) \div width

\* fetchFilesBatch has returned after one fetch per input path, issued in input order,
\* and after ceil(n / width) turns of its loop (the last turn began at
\* i = (ceil(n / width) - 1) * width)
BatchDone ==
    /\ kind = "batch"
    /\ pc = "returned"
    /\ fIssued = fPaths
    /\ fPaths # <<>> => fWidth > 0 /\ fI = (CeilDiv(Len(fPaths), fWidth) - 1) * fWidth

\* C39: every call of fetchFilesBatch returns, having issued exactly one fetch per
\* input path in ceil(n / width) chunks
C39_BatchTerminates == (kind = "batch") ~> BatchDone

----------------------------------------------------------------------------
(* C40: the totals of a complete event *)

RECURSIVE SumOfCounts(_)
SumOfCounts(parts) == IF parts = <<>> THEN 0 ELSE parts[1].count + SumOfCounts(Tail(parts))

\* the four grouped buckets together
BucketTotal(grouped) ==
    Len(grouped.critical) + Len(grouped.high) + Len(grouped.medium) + Len(grouped.low)

\* totalFindings, findings.length, the buckets and the summary's counts agree
TotalsAgree(data) ==
    /\ data.totalFindings = Len(data.findings)
    /\ data.totalFindings = BucketTotal(data.grouped)
    /\ data.summary.total = data.totalFindings
    /\ SumOfCounts(data.summary.parts) = data.summary.total

\* C40: in every complete event totalFindings equals findings.length and the sum of the
\* sizes of the four grouped buckets, and the counts listed in the summary add up to
\* the stated total
C40_TotalsAgree ==
    \A i \in 1..Len(CompleteEvents(chan)) : TotalsAgree(CompleteEvents(chan)[i].data)

\* C40 witness: the model reported a finding whose severity is none of the four, with
\* a confidence of its own, and the complete event reports a finding of the model
C40_Witness ==
    /\ kind = "scan" /\ pc = "closed"
    /\ CompleteEvents(chan) # <<>>
    /\ asked # <<>> /\ asked[Len(asked)] # None
    /\ asked[Len(asked)][1].kind = "json"
    /\ asked[Len(asked)][1].findings.kind = "array"
    /\ \E k \in 1..Len(asked[Len(asked)][1].findings.items) :
           LET f == asked[Len(asked)][1].findings.items[k]
           IN f.severity \notin {"critical", "high", "medium", "low"} /\ f.confidence = "high"
    /\ \E i \in 1..Len(CompleteEvents(chan)[1].data.findings) :
           CompleteEvents(chan)[1].data.findings[i].source = "ai"
    /\ Len(CompleteEvents(chan)[1].data.summary.parts) > 1

====
